---------------------------- MODULE Spec2Model ----------------------------
(***************************************************************************)
(* A model of the artifact graph engine of olm-oci:                        *)
(*   - the Graph Builder (pkg/client: Push, push, pushSubIndices,          *)
(*     pushBlobs, pushIfNotExist), which stages an Artifact tree in an     *)
(*     in-memory store with one goroutine per blob and per sub-artifact;   *)
(*   - the Graph Copier (internal/copy: Descriptor), the recursive         *)
(*     depth-first copy between two content stores;                        *)
(*   - two operations racing on one destination store.                     *)
(* Bytes are sequences of naturals.  A digest is modelled by the bytes it  *)
(* is computed from (a collision-free hash: equal digests <=> equal        *)
(* bytes); digests are ordered lexicographically, as digest strings are.   *)
(***************************************************************************)
EXTENDS Integers, Sequences, FiniteSets, TLC

(***************************************************************************)
(* Bounds of the model.                                                    *)
(***************************************************************************)
MaxNodes == 2        \* Artifact nodes in a tree handed to Push
MaxFaults == 2       \* blob Data()/read failures injected in one build
MaxRetries == 1      \* re-runs of a copy that returned an error
MaxRacers == 2       \* operations that share one destination
MaxTasks == 9        \* blob and sub-artifact tasks of one build
MaxSubs == 2         \* sub-artifacts of the root artifact
MaxBundles == 3      \* bundles of the package handed to loadUpgradeEdges
MaxChildren == 3     \* sub-artifacts and blobs one inspected node declares
MaxMessages == 5     \* progress messages one copy writes
MaxWriters == 2      \* workers of one copy (CopyGraphOptions.Concurrency)
MaxChannels == 2     \* channels of the package handed to ToFBC

(***************************************************************************)
(* Generic helpers.                                                        *)
(***************************************************************************)
Min(a, b) == IF a < b THEN a ELSE b

RECURSIVE SeqSum(_)
SeqSum(s) == IF s = <<>> THEN 0 ELSE Head(s) + SeqSum(Tail(s))

Range(s) == {s[i] : i \in 1..Len(s)}

(***************************************************************************)
(* Descriptors.  content.NewDescriptorFromBytes(mediaType, data) sets the  *)
(* digest from the bytes and the size to their length.                     *)
(***************************************************************************)
MediaTypeArtifactManifest == "application/vnd.oci.artifact.manifest.v1+json"
MediaTypeBundleMetadata == "application/vnd.cncf.operatorframework.olm.bundle.metadata.v1+yaml"
MediaTypeProperties == "application/vnd.cncf.operatorframework.olm.properties.v1+yaml"
MediaTypeConstraints == "application/vnd.cncf.operatorframework.olm.constraints.v1+yaml"

NoDesc == [mediaType |-> "", digest |-> <<>>, size |-> 0]

NewDescriptorFromBytes(mt, data) ==
    [mediaType |-> mt, digest |-> data, size |-> Len(data)]

\* digest.String() < digest.String(): a strict total order on digests.
DigestLess(a, b) ==
    \E k \in 0..Min(Len(a), Len(b)) :
        /\ \A j \in 1..k : a[j] = b[j]
        /\ \/ k = Len(a) /\ k < Len(b)
           \/ k < Len(a) /\ k < Len(b) /\ a[k + 1] < b[k + 1]

(***************************************************************************)
(* json.Marshal / json.Unmarshal of ocispec.Artifact, on byte sequences:   *)
(* <<artifactType, #blobs>> then, per blob descriptor, its media type      *)
(* code, its size and its digest.                                          *)
(***************************************************************************)
MediaTypeNames ==
    << MediaTypeArtifactManifest, MediaTypeBundleMetadata,
       MediaTypeProperties, MediaTypeConstraints >>

MediaTypeCode(mt) == CHOOSE i \in 1..Len(MediaTypeNames) : MediaTypeNames[i] = mt

RECURSIVE MarshalBlobs(_)
MarshalBlobs(descs) ==
    IF descs = <<>> THEN <<>>
    ELSE <<MediaTypeCode(Head(descs).mediaType), Head(descs).size>>
             \o Head(descs).digest \o MarshalBlobs(Tail(descs))

Marshal(artifactType, descs) ==
    <<artifactType, Len(descs)>> \o MarshalBlobs(descs)

RECURSIVE UnmarshalBlobs(_, _)
UnmarshalBlobs(bytes, n) ==
    IF n = 0 THEN <<>>
    ELSE LET sz == bytes[2]
         IN  << [mediaType |-> MediaTypeNames[bytes[1]],
                 digest |-> SubSeq(bytes, 3, 2 + sz),
                 size |-> sz] >>
               \o UnmarshalBlobs(SubSeq(bytes, 3 + sz, Len(bytes)), n - 1)

\* The Blobs field of the decoded ocispec.Artifact.
UnmarshalArtifactBlobs(bytes) == UnmarshalBlobs(SubSeq(bytes, 3, Len(bytes)), bytes[2])

(***************************************************************************)
(* sort.Slice(descriptors, less) with less comparing digests only.  For    *)
(* fewer than 12 elements Go runs an insertion sort: an element moves left *)
(* only past elements whose digest is strictly greater, so descriptors of  *)
(* equal digest keep the order they were read from the channel in.         *)
(***************************************************************************)
RECURSIVE InsertByDigest(_, _)
InsertByDigest(sorted, d) ==
    IF sorted = <<>> THEN <<d>>
    ELSE LET last == sorted[Len(sorted)]
         IN  IF DigestLess(d.digest, last.digest)
             THEN InsertByDigest(SubSeq(sorted, 1, Len(sorted) - 1), d) \o <<last>>
             ELSE sorted \o <<d>>

RECURSIVE SortFrom(_, _)
SortFrom(sorted, rest) ==
    IF rest = <<>> THEN sorted
    ELSE SortFrom(InsertByDigest(sorted, Head(rest)), Tail(rest))

\* The descriptors in the order they were read from the channel.
SortSliceAsDelivered(descs) == descs

SortSliceByDigest(descs) == SortFrom(<<>>, descs)


(***************************************************************************)
(* The Artifact trees handed to Push.  An Artifact is one of a few         *)
(* variants (its artifact type and its Blobs(), each a media type and the  *)
(* bytes Data() yields); SubIndices() is given by the parent vector.       *)
(*   variant 1: one metadata blob;                                         *)
(*   variant 2: a properties list and a constraints list with the same     *)
(*              entries (TypeValues.Data marshals both the same way, so    *)
(*              the two blobs have the same bytes and digest).             *)
(* Two nodes of the same variant carry identical blobs: the same content   *)
(* under two parents.                                                      *)
(***************************************************************************)
ArtifactVariants ==
    << << [mediaType |-> MediaTypeBundleMetadata, data |-> <<3>>] >>,
       << [mediaType |-> MediaTypeProperties, data |-> <<2>>],
          [mediaType |-> MediaTypeConstraints, data |-> <<2>>] >> >>

Variants == 1..Len(ArtifactVariants)
Nodes == 1..MaxNodes
Root == 1

\* The most blobs any variant has.
MaxBlobs == CHOOSE m \in 0..4 :
    /\ \A v \in Variants : Len(ArtifactVariants[v]) <= m
    /\ \E v \in Variants : Len(ArtifactVariants[v]) = m
BlobSlots == Nodes \X (1..MaxBlobs)

\* A tree of n nodes: node 1 is the root, node i > 1 hangs under parent[i] < i.
\* Unused nodes have parent 0 and variant 1.
Trees ==
    { t \in [n : Nodes, parent : [Nodes -> 0..MaxNodes], variant : [Nodes -> Variants]] :
        /\ t.parent[Root] = 0
        /\ \A i \in Nodes \ {Root} :
              IF i <= t.n THEN t.parent[i] \in 1..(i - 1)
              ELSE t.parent[i] = 0 /\ t.variant[i] = 1 }

\* artifact.ArtifactType(), artifact.Blobs(), artifact.SubIndices()
ArtifactType(t, n) == t.variant[n]
Blobs(t, n) == ArtifactVariants[t.variant[n]]
SubIndices(t, n) == {c \in Nodes : c <= t.n /\ t.parent[c] = n}
BlobsOf(t, n) == {<<n, i>> : i \in 1..Len(Blobs(t, n))}
BlobDesc(t, b) ==
    NewDescriptorFromBytes(Blobs(t, b[1])[b[2]].mediaType, Blobs(t, b[1])[b[2]].data)

(***************************************************************************)
(* Errors.                                                                 *)
(***************************************************************************)
Nil == [kind |-> "nil", node |-> 0, idx |-> 0]
ErrData(n, i) == [kind |-> "data", node |-> n, idx |-> i]       \* blob.Data()/ReadAll failed
ErrCanceled == [kind |-> "canceled", node |-> 0, idx |-> 0]     \* ctx.Err()
ErrAlreadyExists == [kind |-> "already exists", node |-> 0, idx |-> 0]
ErrPushBlob(n, i) == [kind |-> "push blob", node |-> n, idx |-> i]
ErrPushArtifact(n) == [kind |-> "push artifact", node |-> n, idx |-> 0]

\* What the text of an error names, from the format string that builds it:
\* "push blob %q with digest %s failed" and "push artifact %q with digest %s
\* failed" (client.go 91, 190), "failed pushing %q with digest %q" (copy.go
\* 77, 165), "unrecognized media type %q" (copy.go 161). Every other error is
\* returned as the callee gave it (client.go 81, 86; copy.go 42, 52, 85, 93).
ErrorNames(kind) ==
    IF kind \in {"push blob", "push artifact", "failed pushing"} THEN {"type", "digest"}
    ELSE IF kind = "unrecognized media type" THEN {"type"}
    ELSE {}

(***************************************************************************)
(* The staging store (oras memory.Store) holds content keyed by            *)
(* descriptor.  Push of a descriptor it already holds returns              *)
(* ErrAlreadyExists and stores nothing.                                    *)
(***************************************************************************)
MemoryPush(st, desc) ==
    IF desc \in st THEN [store |-> st, err |-> ErrAlreadyExists]
    ELSE [store |-> st \cup {desc}, err |-> Nil]

\* A push that reports ErrAlreadyExists to its caller.
pushIfNotExistStrict(st, desc) == MemoryPush(st, desc)

\* client.go pushIfNotExist: ErrAlreadyExists is not an error.
pushIfNotExist(st, desc) ==
    LET r == MemoryPush(st, desc)
    IN  [store |-> r.store,
         err |-> IF r.err # Nil /\ r.err # ErrAlreadyExists THEN r.err ELSE Nil]

(***************************************************************************)
(* State.                                                                  *)
(***************************************************************************)
VARIABLES
    \* ---- Graph Builder (pkg/client/client.go) ----
    tree,             \* the Artifact tree handed to Push
    phase,            \* Push: "stage", "copy", "done" or "failed"
    npc,              \* per node, the goroutine running push(node):
                      \*   "idle"   not launched
                      \*   "ready"  launched by eg.Go (the root: Push called)
                      \*   "wait"   tasks launched, in eg.Wait()
                      \*   "pushed" manifest pushed, about to hand its descriptor on
                      \*   "done"   descriptor sent to the parent (the root: returned)
                      \*   "failed" returned an error
    bpc,              \* per blob task: "idle", "run", "read", "pushed", "done", "failed"
    gerr,             \* per node, its errgroup's err (the first error of its tasks)
    gcancel,          \* per node, whether its errgroup cancelled egCtx
    callerCancelled,  \* whether the ctx given to Push is cancelled
    descChan,         \* per node, the descriptors sent on descChan so far
    ndesc,            \* per node, the manifest descriptor push computed
    store,            \* the staging store: the descriptors it holds
    stageErr,         \* the error push(root) returned to Push
    result,           \* what Push returned
    target,           \* the real target: the descriptors it holds
    targetOps,        \* operations performed on the target so far
    cpc,              \* CopyGraph: "idle", "copying"
    faults,           \* failures injected so far
    prevRoot          \* the root descriptor an earlier build of the same tree returned

bvars == << tree, phase, npc, bpc, gerr, gcancel, callerCancelled, descChan, ndesc,
            store, stageErr, result, target, targetOps, cpc, faults, prevRoot >>

VARIABLES
    \* ---- Graph Copier (internal/copy/copy.go) ----
    cver,        \* which form of copy.Descriptor runs
    croot,       \* the root descriptor of the copy
    ctagged,     \* whether ref is a reference.Tagged
    crefPusher,  \* whether dest is a registry.ReferencePusher
    dest0,       \* dest before the first attempt
    dest,        \* dest: the descriptors it holds
    destTag,     \* the descriptor the tag points at in dest (0: no tag)
    cstack,      \* the active calls of Descriptor, outermost first
    cdone,       \* whether the outermost call has returned
    cres,        \* what the outermost call returned: bytes and error
    fetchLog,    \* the descriptors fetched from src in this attempt, in order
    pushLog,     \* the descriptors pushed to dest in this attempt, in order
    callLog,     \* the descriptors Descriptor was called on in this attempt
    cfault,      \* whether a store operation failed in this attempt
    attempt,     \* 1 for the first run of the copy, more for its re-runs
    prevBytes,   \* the bytes the failed attempts reported
    landed,      \* the descriptors pushed by the failed attempts
    unrecChain   \* the call chains that ended in "unrecognized media type"

cvars == << cver, croot, ctagged, crefPusher, dest0, dest, destTag, cstack, cdone, cres,
            fetchLog, pushLog, callLog, cfault, attempt, prevBytes, landed, unrecChain >>

VARIABLES
    \* ---- Operations that share one destination ----
    destKind,    \* what the shared destination is: an OCI layout or a registry
    shared,      \* how many copies of each descriptor the destination holds
    rop,         \* the code each operation runs
    rdesc,       \* the descriptor each operation is about to transfer
    rpc,         \* where each operation is
    rerr         \* what each operation returned

rvars == << destKind, shared, rop, rdesc, rpc, rerr >>

VARIABLES
    \* ---- The tasks of a build (unnamed/part_016; pkg/client/client.go) ----
    pver,        \* the builder that runs: the pool builder or the staging builder
    psubs,       \* how many sub-artifacts the root artifact has
    pblobs,      \* how many blobs each artifact has (the root is artifact 1)
    ppc,         \* where push is for each artifact
    prun,        \* per artifact, the blob tasks that are reading their blob
    ppushing,    \* per artifact, the blob tasks whose pushIfNotExist is running
    pdone        \* per artifact, the blob tasks that have returned

pvars == << pver, psubs, pblobs, ppc, prun, ppushing, pdone >>

VARIABLES
    iver,          \* which form of the Inspector runs
    iroot,         \* the root descriptor handed to Inspect
    istore,        \* the objects the inspected store holds
    itag,          \* what the store's tag resolves to (0: no tag)
    ictx,          \* the caller's context: "live" or "canceled"
    istack,        \* the calls of inspect in progress, innermost last
    idone,         \* Inspect has returned
    ierr,          \* the error Inspect returned
    ifetched,      \* the descriptors fetched, in order
    istore0,       \* the store's objects when Inspect was called
    itag0          \* the store's tag when Inspect was called

ivars == << iver, iroot, istore, itag, ictx, istack, idone, ierr, ifetched, istore0, itag0 >>

VARIABLES
    ebundles,           \* the bundles handed to loadUpgradeEdges
    upgradeEdges,       \* the declared edges read from the package directory
    byVersion,          \* version -> its releases' full versions (one array each)
    finalUpgradeEdges,  \* full version -> target list, as built so far
    etodo,              \* the declared versions the outer loop has yet to visit
    efrom,              \* the version the outer loop is at (0: between versions)
    ei,                 \* the inner loop's index into byVersion[efrom]
    edone,              \* loadUpgradeEdges has returned
    epanic              \* it ended in a run-time panic instead

evars == << ebundles, upgradeEdges, byVersion, finalUpgradeEdges, etodo, efrom, ei,
           edone, epanic >>

VARIABLES
    tver,       \* the package the bundle is built with: api/v1 or internal/pkg
    tmeta,      \* the BundleMetadata supplied at construction
    tblob,      \* the metadata blob the build pushed (<< >>: not built yet)
    tpc,        \* "new", "built", "failed" (the build), "inspected"
    treport     \* what inspect decoded and printed for the metadata blob

tvars == << tver, tmeta, tblob, tpc, treport >>

VARIABLES
    dphase,     \* "dry": ensureDigest's Push runs; "real": the Push to the real
                \* target runs; "sparse": ensureDigest starts on a bundle without
                \* content, and "trusted" or "failed" is how it returns; "off":
                \* no projection
    embedded,   \* the bundle's Digest, which ToFBC puts into its image reference
    durable     \* what the real target holds while the dry push runs

dvars == << dphase, embedded, durable >>

VARIABLES
    wdeclared,  \* what the node declares: its SubIndices() then its Blobs(), as descriptors
    wchan,      \* the descriptors its tasks have sent on descChan, in arrival order
    wmanifest,  \* the bytes of the manifest push marshalled (<< >>: not yet)
    wvisited,   \* the children inspect has called itself on, in order
    wpc         \* "stage", "pushed", "inspected"

wvars == << wdeclared, wchan, wmanifest, wvisited, wpc >>

VARIABLES
    tagged,     \* the descriptor the target's tag points at (NoDesc: no tag)
    cmdErr      \* what the push command returned: "pending", "nil",
                \* "push package" or "tag package"

gvars == << tagged, cmdErr >>

VARIABLES
    qleft,      \* progress messages the copy's workers have still to write
    qwriting,   \* how many workers' callbacks are blocked in a Write on pw
    qcopy,      \* oras.CopyGraph: "running", "nil" or "err" (what it returned)
    qclosed,    \* whether pw.Close() was called
    qdisp,      \* the display goroutine: "reading", or what it sent on errChan
                \* before it ended: "nil" or "err"
    qshown,     \* how many messages the goroutine has displayed on os.Stdout
    qret        \* CopyGraphWithProgress: "running" or the error it returned

qvars == << qleft, qwriting, qcopy, qclosed, qdisp, qshown, qret >>

VARIABLES
    fchs,       \* p.Channels: each channel's Bundles, a list of (version, release)
    fedges,     \* p.UpgradeEdges: full version -> list of full versions
    fi,         \* how many channels ToFBC's outer loop has flattened
    fchannels,  \* channels: for each flattened channel, its Entries
    fbundleMap, \* bundleMap: full version -> the declcfg.Bundle's Name
    fbundles,   \* the returned Bundles list (their names)
    fret        \* ToFBC: "running", "ok" or "err"

fvars == << fchs, fedges, fi, fchannels, fbundleMap, fbundles, fret >>

\* What stays as it is while one part of the program runs: the state of the
\* other parts.
idleInBuild == << cvars, rvars, pvars, ivars, evars, tvars, dvars, wvars, gvars, qvars, fvars >>
idleInCopy == << bvars, rvars, pvars, ivars, evars, tvars, dvars, wvars, gvars, qvars, fvars >>
idleInRace == << bvars, cvars, pvars, ivars, evars, tvars, dvars, wvars, gvars, qvars, fvars >>
idleInPool == << bvars, cvars, rvars, ivars, evars, tvars, dvars, wvars, gvars, qvars, fvars >>
idleInInspect == << bvars, cvars, rvars, pvars, evars, tvars, dvars, wvars, gvars, qvars, fvars >>
idleInEdges == << bvars, cvars, rvars, pvars, ivars, tvars, dvars, wvars, gvars, qvars, fvars >>
idleInTrip == << bvars, cvars, rvars, pvars, ivars, evars, dvars, wvars, gvars, qvars, fvars >>
idleInDry == << cvars, rvars, pvars, ivars, evars, tvars, wvars, gvars, qvars, fvars >>
idleInWalk == << bvars, cvars, rvars, pvars, ivars, evars, tvars, dvars, gvars, qvars, fvars >>
idleInTag == << cvars, rvars, pvars, ivars, evars, tvars, dvars, wvars, qvars, fvars >>
idleInProgress == << bvars, cvars, rvars, pvars, ivars, evars, tvars, dvars, wvars, gvars, fvars >>
idleInFbc == << bvars, cvars, rvars, pvars, ivars, evars, tvars, dvars, wvars, gvars, qvars >>


BuildStart(t) ==
    /\ tree = t
    /\ phase = "stage"
    /\ npc = [n \in Nodes |-> IF n = Root THEN "ready" ELSE "idle"]
    /\ bpc = [b \in BlobSlots |-> "idle"]
    /\ gerr = [n \in Nodes |-> Nil]
    /\ gcancel = [n \in Nodes |-> FALSE]
    /\ callerCancelled = FALSE
    /\ descChan = [n \in Nodes |-> <<>>]
    /\ ndesc = [n \in Nodes |-> NoDesc]
    /\ store = {}
    /\ stageErr = Nil
    /\ result = [desc |-> NoDesc, err |-> "pending"]
    /\ cpc = "idle"
    /\ faults = 0

InitBuild ==
    /\ \E t \in Trees : BuildStart(t)
    /\ target = {}
    /\ targetOps = 0
    /\ prevRoot = NoDesc

\* The Builder at rest: no Push has been called.
BuilderIdle ==
    /\ tree = CHOOSE t \in Trees : t.n = 1 /\ t.variant[Root] = 1
    /\ phase = "idle"
    /\ npc = [n \in Nodes |-> "idle"]
    /\ bpc = [b \in BlobSlots |-> "idle"]
    /\ gerr = [n \in Nodes |-> Nil]
    /\ gcancel = [n \in Nodes |-> FALSE]
    /\ callerCancelled = FALSE
    /\ descChan = [n \in Nodes |-> <<>>]
    /\ ndesc = [n \in Nodes |-> NoDesc]
    /\ store = {}
    /\ stageErr = Nil
    /\ result = [desc |-> NoDesc, err |-> "pending"]
    /\ target = {}
    /\ targetOps = 0
    /\ cpc = "idle"
    /\ faults = 0
    /\ prevRoot = NoDesc

(***************************************************************************)
(* errgroup and contexts.                                                  *)
(***************************************************************************)
\* A group that keeps no error.
GroupErrForgotten(g, n, e) == g

\* errOnce.Do: the first error a task of the group returns is kept, and egCtx
\* is cancelled.
GroupErr(g, n, e) == [g EXCEPT ![n] = IF @ = Nil THEN e ELSE @]

\* egCtx of push(n) is done: its group cancelled it, or the ctx it derives
\* from (the parent's egCtx; for the root, the caller's ctx) is done.
RECURSIVE CtxDone(_)
CtxDone(n) ==
    \/ gcancel[n]
    \/ IF n = Root THEN callerCancelled ELSE CtxDone(tree.parent[n])

\* eg.Wait() can return: every task of push(n) has returned.
TasksReturned(n) ==
    /\ \A b \in BlobsOf(tree, n) : bpc[b] \in {"done", "failed"}
    /\ \A c \in SubIndices(tree, n) : npc[c] \in {"done", "failed"}

\* Push, after push(root) returned err: the copy phase starts only on success.
PhaseAfterStagingAlways(err) == "copy"
PhaseAfterStaging(err) == IF err # Nil THEN "failed" ELSE "copy"

(***************************************************************************)
(* push(n) returns the error e: to Push for the root, and otherwise to the *)
(* sub-artifact task of the parent's group, which returns it.              *)
(***************************************************************************)
NodeReturnsErr(n, e) ==
    /\ npc' = [npc EXCEPT ![n] = "failed"]
    /\ IF n = Root
       THEN /\ stageErr' = e
            /\ phase' = PhaseAfterStaging(e)
            /\ result' = IF PhaseAfterStaging(e) = "failed"
                         THEN [desc |-> NoDesc, err |-> "stage artifact graph locally"]
                         ELSE result
            /\ gerr' = gerr
       ELSE /\ gerr' = GroupErr(gerr, tree.parent[n], e)
            /\ UNCHANGED << stageErr, phase, result >>

(***************************************************************************)
(* push: create the errgroup, launch one task per sub-artifact and one per *)
(* blob (client.go 144-150).                                               *)
(***************************************************************************)
NodeStart(n) ==
    /\ phase = "stage"
    /\ npc[n] = "ready"
    /\ npc' = [m \in Nodes |-> IF m = n THEN "wait"
                               ELSE IF m \in SubIndices(tree, n) THEN "ready"
                               ELSE npc[m]]
    /\ bpc' = [b \in BlobSlots |-> IF b \in BlobsOf(tree, n) THEN "run" ELSE bpc[b]]
    /\ UNCHANGED << tree, phase, gerr, gcancel, callerCancelled, descChan, ndesc, store,
                    stageErr, result, target, targetOps, cpc, faults, prevRoot >>
    /\ UNCHANGED idleInBuild

\* pushBlobs task: blob.Data() and io.ReadAll succeed (client.go 81-91).
BlobRead(b) ==
    /\ phase = "stage"
    /\ bpc[b] = "run"
    /\ bpc' = [bpc EXCEPT ![b] = "read"]
    /\ UNCHANGED << tree, phase, npc, gerr, gcancel, callerCancelled, descChan, ndesc,
                    store, stageErr, result, target, targetOps, cpc, faults, prevRoot >>
    /\ UNCHANGED idleInBuild

\* pushBlobs task: blob.Data() or io.ReadAll fails; the task returns the error.
BlobReadFail(b) ==
    /\ phase = "stage"
    /\ bpc[b] = "run"
    /\ faults < MaxFaults
    /\ faults' = faults + 1
    /\ bpc' = [bpc EXCEPT ![b] = "failed"]
    /\ gerr' = GroupErr(gerr, b[1], ErrData(b[1], b[2]))
    /\ gcancel' = [gcancel EXCEPT ![b[1]] = TRUE]
    /\ UNCHANGED << tree, phase, npc, callerCancelled, descChan, ndesc, store, stageErr,
                    result, target, targetOps, cpc, prevRoot >>
    /\ UNCHANGED idleInBuild

\* pushBlobs task: pushIfNotExist of the blob's descriptor (client.go 91-94).
BlobPush(b) ==
    /\ phase = "stage"
    /\ bpc[b] = "read"
    /\ LET desc == BlobDesc(tree, b)
           r == pushIfNotExist(store, desc)
       IN  /\ store' = r.store
           /\ IF r.err = Nil
              THEN /\ bpc' = [bpc EXCEPT ![b] = "pushed"]
                   /\ UNCHANGED << gerr, gcancel >>
              ELSE /\ bpc' = [bpc EXCEPT ![b] = "failed"]
                   /\ gerr' = GroupErr(gerr, b[1], ErrPushBlob(b[1], b[2]))
                   /\ gcancel' = [gcancel EXCEPT ![b[1]] = TRUE]
    /\ UNCHANGED << tree, phase, npc, callerCancelled, descChan, ndesc, stageErr, result,
                    target, targetOps, cpc, faults, prevRoot >>
    /\ UNCHANGED idleInBuild

\* pushBlobs task: the select is reached only after pushIfNotExist returned
\* nil (client.go 92-95).
DescReadyBeforePush(b) == bpc[b] \in {"read", "pushed"}
DescReady(b) == bpc[b] = "pushed"

\* A send that drops a descriptor whose digest the channel already holds.
BlobSendOncePerDigest(b) ==
    /\ phase = "stage"
    /\ DescReady(b)
    /\ bpc' = [bpc EXCEPT ![b] = "done"]
    /\ descChan' = [descChan EXCEPT ![b[1]] =
                        IF \E i \in 1..Len(@) : @[i].digest = BlobDesc(tree, b).digest
                        THEN @ ELSE Append(@, BlobDesc(tree, b))]
    /\ UNCHANGED << tree, phase, npc, gerr, gcancel, callerCancelled, ndesc, store,
                    stageErr, result, target, targetOps, cpc, faults, prevRoot >>
    /\ UNCHANGED idleInBuild

\* pushBlobs task: the select takes "descChan <- desc" (client.go 95-100).
BlobSend(b) ==
    /\ phase = "stage"
    /\ DescReady(b)
    /\ bpc' = [bpc EXCEPT ![b] = "done"]
    /\ descChan' = [descChan EXCEPT ![b[1]] = Append(@, BlobDesc(tree, b))]
    /\ UNCHANGED << tree, phase, npc, gerr, gcancel, callerCancelled, ndesc, store,
                    stageErr, result, target, targetOps, cpc, faults, prevRoot >>
    /\ UNCHANGED idleInBuild

\* pushBlobs task: the select takes "<-ctx.Done()" and returns ctx.Err().
BlobCanceled(b) ==
    /\ phase = "stage"
    /\ DescReady(b)
    /\ CtxDone(b[1])
    /\ bpc' = [bpc EXCEPT ![b] = "failed"]
    /\ gerr' = GroupErr(gerr, b[1], ErrCanceled)
    /\ gcancel' = [gcancel EXCEPT ![b[1]] = TRUE]
    /\ UNCHANGED << tree, phase, npc, callerCancelled, descChan, ndesc, store, stageErr,
                    result, target, targetOps, cpc, faults, prevRoot >>
    /\ UNCHANGED idleInBuild

\* push: eg.Wait() returns nil; drain descChan, sort, marshal the manifest
\* and pushIfNotExist it (client.go 152-186).
NodeManifest(n) ==
    /\ phase = "stage"
    /\ npc[n] = "wait"
    /\ TasksReturned(n)
    /\ gerr[n] = Nil
    /\ LET descriptors == SortSliceByDigest(descChan[n])
           data == Marshal(ArtifactType(tree, n), descriptors)
           desc == NewDescriptorFromBytes(MediaTypeArtifactManifest, data)
           r == pushIfNotExist(store, desc)
       IN  /\ store' = r.store
           /\ IF r.err = Nil
              THEN /\ npc' = [npc EXCEPT ![n] = "pushed"]
                   /\ ndesc' = [ndesc EXCEPT ![n] = desc]
                   /\ gcancel' = [gcancel EXCEPT ![n] = TRUE]
                   /\ UNCHANGED << gerr, stageErr, phase, result >>
              ELSE /\ NodeReturnsErr(n, ErrPushArtifact(n))
                   /\ ndesc' = ndesc
                   /\ gcancel' = [m \in Nodes |->
                                     IF m = n \/ m = tree.parent[n] THEN TRUE ELSE gcancel[m]]
    /\ UNCHANGED << tree, bpc, callerCancelled, descChan, target, targetOps, cpc, faults,
                    prevRoot >>
    /\ UNCHANGED idleInBuild

\* push: eg.Wait() returns the group's error and push returns it (client.go 152-154).
NodeWaitErr(n) ==
    /\ phase = "stage"
    /\ npc[n] = "wait"
    /\ TasksReturned(n)
    /\ gerr[n] # Nil
    /\ NodeReturnsErr(n, gerr[n])
    /\ gcancel' = [m \in Nodes |-> IF m = n \/ m = tree.parent[n] THEN TRUE ELSE gcancel[m]]
    /\ UNCHANGED << tree, bpc, callerCancelled, descChan, ndesc, store, target, targetOps,
                    cpc, faults, prevRoot >>
    /\ UNCHANGED idleInBuild

\* pushSubIndices task: the select takes "descChan <- manifestDesc" (client.go 67-72).
NodeSend(n) ==
    /\ phase = "stage"
    /\ n # Root
    /\ npc[n] = "pushed"
    /\ npc' = [npc EXCEPT ![n] = "done"]
    /\ descChan' = [descChan EXCEPT ![tree.parent[n]] = Append(@, ndesc[n])]
    /\ UNCHANGED << tree, phase, bpc, gerr, gcancel, callerCancelled, ndesc, store,
                    stageErr, result, target, targetOps, cpc, faults, prevRoot >>
    /\ UNCHANGED idleInBuild

\* pushSubIndices task: the select takes "<-ctx.Done()" and returns ctx.Err().
NodeCanceled(n) ==
    /\ phase = "stage"
    /\ n # Root
    /\ npc[n] = "pushed"
    /\ CtxDone(tree.parent[n])
    /\ npc' = [npc EXCEPT ![n] = "failed"]
    /\ gerr' = GroupErr(gerr, tree.parent[n], ErrCanceled)
    /\ gcancel' = [gcancel EXCEPT ![tree.parent[n]] = TRUE]
    /\ UNCHANGED << tree, phase, bpc, callerCancelled, descChan, ndesc, store, stageErr,
                    result, target, targetOps, cpc, faults, prevRoot >>
    /\ UNCHANGED idleInBuild

\* Push: push(root) returned its descriptor; the copy phase starts (client.go 48-53).
PushStaged ==
    /\ phase = "stage"
    /\ npc[Root] = "pushed"
    /\ npc' = [npc EXCEPT ![Root] = "done"]
    /\ phase' = PhaseAfterStaging(Nil)
    /\ UNCHANGED << tree, bpc, gerr, gcancel, callerCancelled, descChan, ndesc, store,
                    stageErr, result, target, targetOps, cpc, faults, prevRoot >>
    /\ UNCHANGED idleInBuild

\* The caller cancels the ctx it gave to Push.
CallerCancel ==
    /\ phase = "stage"
    /\ ~callerCancelled
    /\ npc[Root] = "wait"
    /\ callerCancelled' = TRUE
    /\ UNCHANGED << tree, phase, npc, bpc, gerr, gcancel, descChan, ndesc, store, stageErr,
                    result, target, targetOps, cpc, faults, prevRoot >>
    /\ UNCHANGED idleInBuild

(***************************************************************************)
(* The copy phase of Push: CopyGraphWithProgress hands the staged graph to *)
(* oras.CopyGraph (client.go 105-142), which checks the root at the target *)
(* and pushes every missing node after its successors.                     *)
(***************************************************************************)
\* The descriptors a stored manifest refers to.
Successors(desc) ==
    IF desc.mediaType = MediaTypeArtifactManifest
    THEN Range(UnmarshalArtifactBlobs(desc.digest))
    ELSE {}

\* CopyGraph: the existence check of the root at the target.
CopyGraphExists ==
    /\ phase = "copy"
    /\ cpc = "idle"
    /\ targetOps' = targetOps + 1
    /\ IF ndesc[Root] \in target
       THEN /\ phase' = "done"
            /\ result' = [desc |-> ndesc[Root], err |-> "nil"]
            /\ cpc' = cpc
       ELSE /\ cpc' = "copying"
            /\ UNCHANGED << phase, result >>
    /\ UNCHANGED << tree, npc, bpc, gerr, gcancel, callerCancelled, descChan, ndesc, store,
                    stageErr, target, faults, prevRoot >>
    /\ UNCHANGED idleInBuild

\* CopyGraph: one staged node, all of whose successors are at the target, is
\* pushed to the target.
CopyGraphNode(desc) ==
    /\ phase = "copy"
    /\ cpc = "copying"
    /\ desc \in store
    /\ desc \notin target
    /\ Successors(desc) \subseteq target
    /\ target' = target \cup {desc}
    /\ targetOps' = targetOps + 1
    /\ UNCHANGED << tree, phase, npc, bpc, gerr, gcancel, callerCancelled, descChan, ndesc,
                    store, stageErr, result, cpc, faults, prevRoot >>
    /\ UNCHANGED idleInBuild

\* CopyGraphWithProgress returns nil; Push returns the root descriptor.
CopyGraphDone ==
    /\ phase = "copy"
    /\ cpc = "copying"
    /\ ndesc[Root] \in target
    /\ phase' = "done"
    /\ cpc' = "idle"
    /\ result' = [desc |-> ndesc[Root], err |-> "nil"]
    /\ UNCHANGED << tree, npc, bpc, gerr, gcancel, callerCancelled, descChan, ndesc, store,
                    stageErr, target, targetOps, faults, prevRoot >>
    /\ UNCHANGED idleInBuild

\* An operation on the target fails; Push returns "push artifact graph: ...".
CopyGraphFail ==
    /\ phase = "copy"
    /\ faults < MaxFaults
    /\ faults' = faults + 1
    /\ targetOps' = targetOps + 1
    /\ phase' = "failed"
    /\ cpc' = "idle"
    /\ result' = [desc |-> NoDesc, err |-> "push artifact graph"]
    /\ UNCHANGED << tree, npc, bpc, gerr, gcancel, callerCancelled, descChan, ndesc, store,
                    stageErr, target, prevRoot >>
    /\ UNCHANGED idleInBuild

\* The same Artifact tree is built again, by a new call of Push (a fresh
\* staging store); the descriptor the first build staged is remembered.
Rebuild ==
    /\ phase \in {"copy", "done"}
    /\ cpc = "idle"
    /\ prevRoot = NoDesc
    /\ prevRoot' = ndesc[Root]
    /\ tree' = tree
    /\ phase' = "stage"
    /\ npc' = [n \in Nodes |-> IF n = Root THEN "ready" ELSE "idle"]
    /\ bpc' = [b \in BlobSlots |-> "idle"]
    /\ gerr' = [n \in Nodes |-> Nil]
    /\ gcancel' = [n \in Nodes |-> FALSE]
    /\ callerCancelled' = FALSE
    /\ descChan' = [n \in Nodes |-> <<>>]
    /\ ndesc' = [n \in Nodes |-> NoDesc]
    /\ store' = {}
    /\ stageErr' = Nil
    /\ result' = [desc |-> NoDesc, err |-> "pending"]
    /\ faults' = 0
    /\ UNCHANGED << target, targetOps, cpc >>
    /\ UNCHANGED idleInBuild

(***************************************************************************)
(* The Graph Copier: copy.Descriptor (internal/copy/copy.go 39-170, and    *)
(* its earlier form in unnamed/part_015 356-475).                          *)
(*                                                                         *)
(* The source store holds the objects below.  An object is identified by   *)
(* its digest (its index); a descriptor of it carries its media type and   *)
(* size.  "children" are the descriptors its bytes embed, in order, when   *)
(* they decode as the manifest format of its media type; "decodes" is      *)
(* whether json.Unmarshal of its bytes succeeds.                           *)
(***************************************************************************)
MTMarkdown == "text/markdown"
MTDockerLayer == "application/vnd.docker.image.rootfs.diff.tar.gzip"
MTDockerConfig == "application/vnd.docker.container.image.v1+json"
MTDockerForeignLayer == "application/vnd.docker.image.rootfs.foreign.diff.tar"
MTDockerForeignLayerGzip == "application/vnd.docker.image.rootfs.foreign.diff.tar.gzip"
MTOCIConfig == "application/vnd.oci.image.config.v1+json"
MTOCILayer == "application/vnd.oci.image.layer.v1.tar"
MTOCILayerGzip == "application/vnd.oci.image.layer.v1.tar+gzip"
MTOCILayerZstd == "application/vnd.oci.image.layer.v1.tar+zstd"
MTOCILayerNonDistributable == "application/vnd.oci.image.layer.nondistributable.v1.tar"
MTOCILayerNonDistributableGzip == "application/vnd.oci.image.layer.nondistributable.v1.tar+gzip"
MTOCILayerNonDistributableZstd == "application/vnd.oci.image.layer.nondistributable.v1.tar+zstd"
MediaTypeCNCFOperatorFrameworkChannelEntriesV0YAML ==
    "application/vnd.cncf.operatorframework.channel.entries.v0+yaml"
MediaTypeCNCFOperatorFrameworkPropertiesV0YAML ==
    "application/vnd.cncf.operatorframework.properties.v0+yaml"
MediaTypeCNCFOperatorFrameworkConstraintsV0YAML ==
    "application/vnd.cncf.operatorframework.constraints.v0+yaml"
MediaTypeCNCFOperatorFrameworkBundleContentPlainV0TarGZ ==
    "application/vnd.cncf.operatorframework.bundle.content.plain.v0.tar+gzip"
MTSvg == "image/svg+xml"
MTDockerSchema2 == "application/vnd.docker.distribution.manifest.v2+json"
MTOCIManifest == "application/vnd.oci.image.manifest.v1+json"
MTManifestList == "application/vnd.docker.distribution.manifest.list.v2+json"
MTOCIIndex == "application/vnd.oci.image.index.v1+json"

Obj(mt, sz, ch, ok) == [mediaType |-> mt, size |-> sz, children |-> ch, decodes |-> ok]

SrcObjects ==
    << Obj(MTMarkdown, 1, <<>>, TRUE),                       \* 1
       Obj(MTDockerLayer, 2, <<>>, TRUE),                    \* 2
       Obj(MTDockerConfig, 1, <<>>, TRUE),                   \* 3
       Obj(MTOCIConfig, 1, <<>>, TRUE),                      \* 4
       Obj(MediaTypeBundleMetadata, 1, <<>>, TRUE),          \* 5: in neither switch
       Obj(MTDockerSchema2, 3, <<3, 2>>, TRUE),              \* 6: config 3, layer 2
       Obj(MTOCIManifest, 3, <<4, 2>>, TRUE),                \* 7: config 4, layer 2
       Obj(MTManifestList, 2, <<6>>, TRUE),                  \* 8
       Obj(MTOCIIndex, 2, <<7, 6>>, TRUE),                   \* 9: 2 is shared
       Obj(MediaTypeArtifactManifest, 4, <<1, 8, 1>>, TRUE), \* 10: 1 is listed twice
       Obj(MediaTypeArtifactManifest, 2, <<1, 5>>, TRUE),    \* 11: a child in neither switch
       Obj(MediaTypeArtifactManifest, 2, <<11, 1>>, TRUE),   \* 12: such a grandchild
       Obj(MediaTypeArtifactManifest, 2, <<>>, FALSE),       \* 13: bytes do not decode
       Obj(MediaTypeArtifactManifest, 2, <<1, 13>>, TRUE),   \* 14
       Obj(MTSvg, 1, <<>>, FALSE) >>                         \* 15: a leaf, not JSON
Objects == 1..Len(SrcObjects)
Size(d) == SrcObjects[d].size

\* The two forms of the Copier in the repository.
CopierVersions == {"copy.go", "part_015"}

\* The media types pushed as they are, with no children (copy.go 66-75;
\* part_015 449-465, which also lists the OCI image config and layer types).
LeafMediaTypes(ver) ==
    {MTDockerConfig, MTDockerLayer, MTDockerForeignLayer, MTDockerForeignLayerGzip,
     MediaTypeCNCFOperatorFrameworkBundleContentPlainV0TarGZ,
     MediaTypeCNCFOperatorFrameworkChannelEntriesV0YAML,
     MediaTypeCNCFOperatorFrameworkConstraintsV0YAML,
     MediaTypeCNCFOperatorFrameworkPropertiesV0YAML,
     MTMarkdown, MTSvg}
        \cup (IF ver = "part_015"
              THEN {MTOCIConfig, MTOCILayer, MTOCILayerGzip, MTOCILayerZstd,
                    MTOCILayerNonDistributable, MTOCILayerNonDistributableGzip,
                    MTOCILayerNonDistributableZstd}
              ELSE {})

\* A leaf registry that also accepts every media type it does not know.
IsLeafLenient(ver, mt) ==
    mt \notin {MediaTypeArtifactManifest, MTOCIIndex, MTOCIManifest, MTManifestList,
               MTDockerSchema2}
\* A leaf registry without the text and picture types.
IsLeafBinaryOnly(ver, mt) == mt \in LeafMediaTypes(ver) \ {MTMarkdown, MTSvg}
IsLeaf(ver, mt) == mt \in LeafMediaTypes(ver)

\* The media types of the second switch (copy.go 89-159): manifests.
ManifestMediaTypes ==
    {MediaTypeArtifactManifest, MTOCIIndex, MTOCIManifest, MTManifestList, MTDockerSchema2}
IsManifest(mt) == mt \in ManifestMediaTypes

\* An image manifest decoded without its config descriptor.
ChildDescriptorsNoConfig(d) ==
    IF SrcObjects[d].mediaType \in {MTOCIManifest, MTDockerSchema2}
    THEN Tail(SrcObjects[d].children)
    ELSE IF IsManifest(SrcObjects[d].mediaType) THEN SrcObjects[d].children ELSE <<>>

\* The child descriptors the dispatch on d.MediaType extracts: the artifact's
\* blobs, the index's manifests, the image manifest's config then layers, the
\* manifest list's manifests, the schema2 manifest's config then layers.
ChildDescriptors(d) ==
    IF IsManifest(SrcObjects[d].mediaType) THEN SrcObjects[d].children ELSE <<>>

\* The descriptors an object of the source store refers to: those its bytes
\* embed when its media type is one of the manifest formats.
References(d) ==
    IF SrcObjects[d].mediaType \in ManifestMediaTypes
    THEN Range(SrcObjects[d].children)
    ELSE {}

\* Reachability through references.
RECURSIVE ReachFrom(_, _)
ReachFrom(frontier, seen) ==
    IF frontier \subseteq seen THEN seen
    ELSE ReachFrom(UNION {References(d) : d \in frontier}, seen \cup frontier)
Reach(d) == ReachFrom({d}, {})

\* The DAG-completeness invariant of a store.
DagComplete(st) == \A d \in st : References(d) \subseteq st

CNil == "nil"
Frame(d) == [d |-> d, pc |-> "exists", i |-> 1, bytes |-> 0]

InitCopy ==
    /\ cver \in CopierVersions
    /\ croot \in Objects
    /\ ctagged \in BOOLEAN
    /\ crefPusher \in BOOLEAN
    /\ cver = "part_015" => (~ctagged /\ ~crefPusher)
    /\ ~ctagged => ~crefPusher
    /\ dest0 \in SUBSET Reach(croot)
    /\ dest = dest0
    /\ destTag = 0
    /\ cstack = << Frame(croot) >>
    /\ cdone = FALSE
    /\ cres = [bytes |-> 0, err |-> CNil]
    /\ fetchLog = <<>>
    /\ pushLog = <<>>
    /\ callLog = << croot >>
    /\ cfault = FALSE
    /\ attempt = 1
    /\ prevBytes = 0
    /\ landed = {}
    /\ unrecChain = {}

Top == cstack[Len(cstack)]
StackBytes == SeqSum([k \in 1..Len(cstack) |-> cstack[k].bytes])
SetTop(f) == [cstack EXCEPT ![Len(cstack)] = f]

\* A return of (size, nil) whose caller goes on to its next child without
\* adding size.
ReturnOkNoSum(size) ==
    IF Len(cstack) = 1
    THEN /\ cstack' = <<>>
         /\ cdone' = TRUE
         /\ cres' = [bytes |-> size, err |-> CNil]
    ELSE /\ cstack' = [SubSeq(cstack, 1, Len(cstack) - 1) EXCEPT
                          ![Len(cstack) - 1] = [@ EXCEPT !.i = @ + 1]]
         /\ UNCHANGED << cdone, cres >>

\* The call on top returns (size, nil): the caller adds size and goes on to
\* its next child; the outermost call hands its total to the caller.
ReturnOk(size) ==
    IF Len(cstack) = 1
    THEN /\ cstack' = <<>>
         /\ cdone' = TRUE
         /\ cres' = [bytes |-> size, err |-> CNil]
    ELSE /\ cstack' = [SubSeq(cstack, 1, Len(cstack) - 1) EXCEPT
                          ![Len(cstack) - 1] =
                              [@ EXCEPT !.bytes = @ + size, !.i = @ + 1]]
         /\ UNCHANGED << cdone, cres >>

\* An error return that reports no bytes.
ReturnErrNoBytes(err) ==
    /\ cstack' = <<>>
    /\ cdone' = TRUE
    /\ cres' = [bytes |-> 0, err |-> err]

\* An error that ends only the call on top: its caller goes on to the next
\* child.
ReturnErrGoesOn(err) ==
    /\ cres' = [bytes |-> StackBytes, err |-> err]
    /\ cdone' = (Len(cstack) = 1)
    /\ cstack' = IF Len(cstack) = 1 THEN <<>>
                 ELSE [SubSeq(cstack, 1, Len(cstack) - 1) EXCEPT
                          ![Len(cstack) - 1] = [@ EXCEPT !.i = @ + 1]]

\* The call on top returns (its bytesPushed, err): every caller adds what it
\* got to its own bytesPushed and returns that with the error.
ReturnErr(err) ==
    /\ cstack' = <<>>
    /\ cdone' = TRUE
    /\ cres' = [bytes |-> StackBytes, err |-> err]

\* The existence check decides whether the descriptor is skipped.
PrunedNever(exists) == FALSE
\* Only the call on the root is skipped.
PrunedAtRootOnly(exists) == exists /\ Len(cstack) = 1
Pruned(exists) == exists

\* dest.Exists answers (copy.go 40-48).
DescriptorExists ==
    /\ cstack # <<>>
    /\ Top.pc = "exists"
    /\ IF Pruned(Top.d \in dest)
       THEN ReturnOk(0)
       ELSE /\ cstack' = SetTop([Top EXCEPT !.pc = "fetch"])
            /\ UNCHANGED << cdone, cres >>
    /\ UNCHANGED << cver, croot, ctagged, crefPusher, dest0, dest, destTag, fetchLog,
                    pushLog, callLog, cfault, attempt, prevBytes, landed, unrecChain >>
    /\ UNCHANGED idleInCopy

\* dest.Exists fails (copy.go 41-43).
DescriptorExistsFails ==
    /\ cstack # <<>>
    /\ Top.pc = "exists"
    /\ ReturnErr("exists failed")
    /\ cfault' = TRUE
    /\ UNCHANGED << cver, croot, ctagged, crefPusher, dest0, dest, destTag, fetchLog,
                    pushLog, callLog, attempt, prevBytes, landed, unrecChain >>
    /\ UNCHANGED idleInCopy

\* src.Fetch succeeds and the media type is dispatched on (copy.go 50-162):
\* a leaf goes on to its push, a manifest is decoded and goes on to its
\* children, anything else is an error.
DescriptorFetch ==
    /\ cstack # <<>>
    /\ Top.pc = "fetch"
    /\ fetchLog' = Append(fetchLog, Top.d)
    /\ LET mt == SrcObjects[Top.d].mediaType
       IN  IF IsLeaf(cver, mt) \/ (IsManifest(mt) /\ SrcObjects[Top.d].decodes)
           THEN /\ cstack' = SetTop([Top EXCEPT !.pc = "body"])
                /\ UNCHANGED << cdone, cres, unrecChain >>
           ELSE IF IsManifest(mt)
           THEN /\ ReturnErr("decode failed")
                /\ UNCHANGED unrecChain
           ELSE /\ ReturnErr("unrecognized media type")
                /\ unrecChain' = unrecChain \cup {[k \in 1..Len(cstack) |-> cstack[k].d]}
    /\ UNCHANGED << cver, croot, ctagged, crefPusher, dest0, dest, destTag, pushLog,
                    callLog, cfault, attempt, prevBytes, landed >>
    /\ UNCHANGED idleInCopy

\* src.Fetch or io.ReadAll fails (copy.go 50-53, 83-86).
DescriptorFetchFails ==
    /\ cstack # <<>>
    /\ Top.pc = "fetch"
    /\ ReturnErr("fetch failed")
    /\ cfault' = TRUE
    /\ UNCHANGED << cver, croot, ctagged, crefPusher, dest0, dest, destTag, fetchLog,
                    pushLog, callLog, attempt, prevBytes, landed, unrecChain >>
    /\ UNCHANGED idleInCopy

\* The loops over the child descriptors are over (copy.go 95-159).
ChildrenLandedAlways(f) == TRUE
ChildrenLanded(f) == f.i > Len(ChildDescriptors(f.d))

\* The recursive call on the next child descriptor (copy.go 96, 108, 119, ...).
DescriptorChild ==
    /\ cstack # <<>>
    /\ Top.pc = "body"
    /\ Top.i <= Len(ChildDescriptors(Top.d))
    /\ cstack' = Append(cstack, Frame(ChildDescriptors(Top.d)[Top.i]))
    /\ callLog' = Append(callLog, ChildDescriptors(Top.d)[Top.i])
    /\ UNCHANGED << cver, croot, ctagged, crefPusher, dest0, dest, destTag, cdone, cres,
                    fetchLog, pushLog, cfault, attempt, prevBytes, landed, unrecChain >>
    /\ UNCHANGED idleInCopy

\* push succeeds (copy.go 76-80, 164-169): dest.Push, or PushReference with
\* the tag when ref is tagged and dest is a ReferencePusher; only the
\* outermost call has a ref.
DescriptorPush ==
    /\ cstack # <<>>
    /\ Top.pc = "body"
    /\ ChildrenLanded(Top)
    /\ dest' = dest \cup {Top.d}
    /\ pushLog' = Append(pushLog, Top.d)
    /\ destTag' = IF Len(cstack) = 1 /\ ctagged /\ crefPusher THEN Top.d ELSE destTag
    /\ ReturnOk(Top.bytes + Size(Top.d))
    /\ UNCHANGED << cver, croot, ctagged, crefPusher, dest0, fetchLog, callLog, cfault,
                    attempt, prevBytes, landed, unrecChain >>
    /\ UNCHANGED idleInCopy

\* push fails (copy.go 76-78, 164-166).
DescriptorPushFails ==
    /\ cstack # <<>>
    /\ Top.pc = "body"
    /\ ChildrenLanded(Top)
    /\ ReturnErr("failed pushing")
    /\ cfault' = TRUE
    /\ UNCHANGED << cver, croot, ctagged, crefPusher, dest0, dest, destTag, fetchLog,
                    pushLog, callLog, attempt, prevBytes, landed, unrecChain >>
    /\ UNCHANGED idleInCopy

\* The caller runs the same copy again after it returned an error.
CopyRetry ==
    /\ cdone
    /\ cres.err # CNil
    /\ attempt <= MaxRetries
    /\ attempt' = attempt + 1
    /\ prevBytes' = prevBytes + cres.bytes
    /\ landed' = landed \cup Range(pushLog)
    /\ cstack' = << Frame(croot) >>
    /\ cdone' = FALSE
    /\ cres' = [bytes |-> 0, err |-> CNil]
    /\ fetchLog' = <<>>
    /\ pushLog' = <<>>
    /\ callLog' = << croot >>
    /\ cfault' = FALSE
    /\ UNCHANGED << cver, croot, ctagged, crefPusher, dest0, dest, destTag, unrecChain >>
    /\ UNCHANGED idleInCopy

NextBuild ==
    \/ \E n \in Nodes : NodeStart(n)
    \/ \E b \in BlobSlots : BlobRead(b)
    \/ \E b \in BlobSlots : BlobReadFail(b)
    \/ \E b \in BlobSlots : BlobPush(b)
    \/ \E b \in BlobSlots : BlobSend(b)
    \/ \E b \in BlobSlots : BlobCanceled(b)
    \/ \E n \in Nodes : NodeManifest(n)
    \/ \E n \in Nodes : NodeWaitErr(n)
    \/ \E n \in Nodes : NodeSend(n)
    \/ \E n \in Nodes : NodeCanceled(n)
    \/ PushStaged
    \/ CallerCancel
    \/ CopyGraphExists
    \/ \E desc \in store : CopyGraphNode(desc)
    \/ CopyGraphDone
    \/ CopyGraphFail

\* The steps the scheduler owes a build: every runnable goroutine runs and
\* every store operation returns; that one fails, or that the caller
\* cancels, is not the scheduler's choice.
BuildProgress ==
    \/ \E n \in Nodes : NodeStart(n)
    \/ \E b \in BlobSlots : BlobRead(b)
    \/ \E b \in BlobSlots : BlobPush(b)
    \/ \E b \in BlobSlots : BlobSend(b)
    \/ \E b \in BlobSlots : BlobCanceled(b)
    \/ \E n \in Nodes : NodeManifest(n)
    \/ \E n \in Nodes : NodeWaitErr(n)
    \/ \E n \in Nodes : NodeSend(n)
    \/ \E n \in Nodes : NodeCanceled(n)
    \/ PushStaged
    \/ CopyGraphExists
    \/ \E desc \in store : CopyGraphNode(desc)
    \/ CopyGraphDone

NextCopy ==
    \/ DescriptorExists
    \/ DescriptorExistsFails
    \/ DescriptorFetch
    \/ DescriptorFetchFails
    \/ DescriptorChild
    \/ DescriptorPush
    \/ DescriptorPushFails
    \/ CopyRetry

(***************************************************************************)
(* Operations racing on one destination.  Each is about to transfer one    *)
(* descriptor, with the code of one of the repository's transfer paths:    *)
(* pushIfNotExist of the pool builder (unnamed/part_016 156-165),          *)
(* pushIfNotExist of the staging builder (pkg/client/client.go 189-194),   *)
(* copy.Descriptor on a leaf (internal/copy/copy.go 39-81), and            *)
(* oras.CopyGraph as push_archive.go 96-121 runs it, one per tag.          *)
(***************************************************************************)
Racers == 1..MaxRacers
RaceDescs == {1, 2}
RaceOps == {"pushIfNotExist@part_016", "pushIfNotExist@client.go", "copy.Descriptor",
            "oras.CopyGraph"}

\* The destinations the commands open: an OCI layout (oci.NewWithContext,
\* cmd/bundlebuild/main.go 53) or a registry (remote.NewRepository,
\* cmd/olmoci/internal/cli/push.go 40).
DestKinds == {"oci.Store", "remote.Repository"}

\* Push of the destination: content it does not hold is stored; for content
\* it holds, an OCI layout (like the memory store) answers ErrAlreadyExists,
\* the error pkg/client/client.go 190 looks for, and a registry accepts the
\* upload again.  Either way the content is held once.
TargetPush(kind, st, d) ==
    IF st[d] = 0
    THEN [store |-> [st EXCEPT ![d] = 1], err |-> CNil]
    ELSE [store |-> st,
          err |-> IF kind = "oci.Store" THEN "already exists" ELSE CNil]

\* What the operation makes of the error of Push: only client.go's
\* pushIfNotExist and oras.CopyGraph let ErrAlreadyExists pass.
PushResult(op, err) ==
    IF err = "already exists" /\ op \in {"pushIfNotExist@client.go", "oras.CopyGraph"}
    THEN CNil
    ELSE err

InitRace ==
    /\ destKind \in DestKinds
    /\ shared \in [RaceDescs -> {0, 1}]
    /\ rop \in [Racers -> RaceOps]
    /\ rdesc \in [Racers -> RaceDescs]
    /\ rpc = [r \in Racers |-> "exists"]
    /\ rerr = [r \in Racers |-> CNil]

\* The existence check (part_016 157-163; copy.go 40-48).
RaceExists(r) ==
    /\ rpc[r] = "exists"
    /\ rpc' = [rpc EXCEPT ![r] =
                  IF shared[rdesc[r]] > 0 THEN "done"
                  ELSE IF rop[r] = "copy.Descriptor" THEN "fetch" ELSE "push"]
    /\ UNCHANGED << destKind, shared, rop, rdesc, rerr >>
    /\ UNCHANGED idleInRace

\* src.Fetch of copy.Descriptor (copy.go 50-54).
RaceFetch(r) ==
    /\ rpc[r] = "fetch"
    /\ rpc' = [rpc EXCEPT ![r] = "push"]
    /\ UNCHANGED << destKind, shared, rop, rdesc, rerr >>
    /\ UNCHANGED idleInRace

\* The push and the return (part_016 164; client.go 190-193; copy.go 76-80).
RacePush(r) ==
    /\ rpc[r] = "push"
    /\ LET res == TargetPush(destKind, shared, rdesc[r])
       IN  /\ shared' = res.store
           /\ rerr' = [rerr EXCEPT ![r] = PushResult(rop[r], res.err)]
    /\ rpc' = [rpc EXCEPT ![r] = "done"]
    /\ UNCHANGED << destKind, rop, rdesc >>
    /\ UNCHANGED idleInRace

NextRace ==
    \/ \E r \in Racers : RaceExists(r)
    \/ \E r \in Racers : RaceFetch(r)
    \/ \E r \in Racers : RacePush(r)

RaceIdle ==
    /\ destKind = "oci.Store"
    /\ shared = [d \in RaceDescs |-> 0]
    /\ rop = [r \in Racers |-> "oras.CopyGraph"]
    /\ rdesc = [r \in Racers |-> 1]
    /\ rpc = [r \in Racers |-> "idle"]
    /\ rerr = [r \in Racers |-> CNil]

(***************************************************************************)
(* The tasks of a build.  push launches one task per sub-artifact and one  *)
(* per blob with eg.Go on a fresh errgroup that has no limit (part_016     *)
(* 104-114; client.go 145-150).  The pool builder hands each               *)
(* pushIfNotExist to pushGroup, the one group with a limit (part_016       *)
(* 30-31, 85-89, 145-149); the staging builder calls it in the task.       *)
(* The blob tasks of one artifact are interchangeable and are counted.     *)
(***************************************************************************)
PoolLimit == 8
BuilderVersions == {"part_016", "client.go"}
Artifacts == 1..(MaxSubs + 1)
TaskShapes ==
    {sh \in [Artifacts -> 0..MaxTasks] : SeqSum(sh) <= MaxTasks}

\* The sub-artifacts of the root.
SubArtifacts == {n \in Artifacts : 1 < n /\ n <= psubs + 1}

\* The pushIfNotExist calls that hold a slot of pushGroup.
InPool ==
    SeqSum(ppushing) + Cardinality({n \in Artifacts : ppc[n] = "pushing"})

\* A pool whose slots are also held by the blob tasks that wait for one.
SlotFreeTasksHold == pver = "client.go" \/ InPool + SeqSum(prun) < PoolLimit

\* pushGroup.Go returns at once while fewer than the limit of its functions
\* run, and blocks otherwise (part_016 31, 85, 145); client.go has no pool.
SlotFree == pver = "client.go" \/ InPool < PoolLimit

\* The blob tasks and sub-artifact tasks that have been launched and have
\* not returned.
RunningTasks ==
    SeqSum(prun) + SeqSum(ppushing)
        + Cardinality({n \in SubArtifacts : ppc[n] \in {"launched", "wait", "failing", "pushing"}})

InitPool ==
    /\ pver \in BuilderVersions
    /\ psubs \in 0..MaxSubs
    /\ pblobs \in TaskShapes
    /\ \A n \in Artifacts : n > psubs + 1 => pblobs[n] = 0
    /\ psubs + SeqSum(pblobs) <= MaxTasks
    /\ ppc = [n \in Artifacts |-> "idle"]
    /\ prun = [n \in Artifacts |-> 0]
    /\ ppushing = [n \in Artifacts |-> 0]
    /\ pdone = [n \in Artifacts |-> 0]

\* push(n) launches its tasks (part_016 104-114): for the root when Push
\* calls it, for a sub-artifact when its task runs.
PoolLaunch(n) ==
    /\ \/ n = 1 /\ ppc[n] = "idle"
       \/ ppc[n] = "launched"
    /\ ppc' = [m \in Artifacts |->
                  IF m = n THEN "wait"
                  ELSE IF n = 1 /\ m \in SubArtifacts THEN "launched"
                  ELSE ppc[m]]
    /\ prun' = [prun EXCEPT ![n] = pblobs[n]]
    /\ UNCHANGED << pver, psubs, pblobs, ppushing, pdone >>
    /\ UNCHANGED idleInPool

\* A blob task has read its blob and its pushIfNotExist starts (part_016
\* 72-89; client.go 81-92).
PoolBlobSubmit(n) ==
    /\ prun[n] > 0
    /\ SlotFree
    /\ prun' = [prun EXCEPT ![n] = @ - 1]
    /\ ppushing' = [ppushing EXCEPT ![n] = @ + 1]
    /\ UNCHANGED << pver, psubs, pblobs, ppc, pdone >>
    /\ UNCHANGED idleInPool

\* pushIfNotExist returns; the task sends the descriptor and returns
\* (part_016 90-98; client.go 92-100).
PoolBlobDone(n) ==
    /\ ppushing[n] > 0
    /\ ppushing' = [ppushing EXCEPT ![n] = @ - 1]
    /\ pdone' = [pdone EXCEPT ![n] = @ + 1]
    /\ UNCHANGED << pver, psubs, pblobs, ppc, prun >>
    /\ UNCHANGED idleInPool

\* eg.Wait() returns and the manifest's pushIfNotExist starts (part_016
\* 116-149; client.go 152-183).
PoolManifestSubmit(n) ==
    /\ ppc[n] = "wait"
    /\ pdone[n] = pblobs[n]
    /\ n = 1 => \A m \in SubArtifacts : ppc[m] = "done"
    /\ SlotFree
    /\ ppc' = [ppc EXCEPT ![n] = "pushing"]
    /\ UNCHANGED << pver, psubs, pblobs, prun, ppushing, pdone >>
    /\ UNCHANGED idleInPool

\* The manifest's pushIfNotExist returns and push(n) returns its descriptor
\* (part_016 150-153; client.go 183-186).
PoolManifestDone(n) ==
    /\ ppc[n] = "pushing"
    /\ ppc' = [ppc EXCEPT ![n] = "done"]
    /\ UNCHANGED << pver, psubs, pblobs, prun, ppushing, pdone >>
    /\ UNCHANGED idleInPool

\* A blob task returns an error: blob.Data() or ReadAll failed (part_016
\* 72-80; client.go 79-87) or its pushIfNotExist did (part_016 90-92;
\* client.go 89-92). The task's group keeps the error.
PoolBlobFails(n) ==
    /\ ppc[n] \in {"wait", "failing"}
    /\ \/ /\ prun[n] > 0
          /\ prun' = [prun EXCEPT ![n] = @ - 1]
          /\ ppushing' = ppushing
       \/ /\ ppushing[n] > 0
          /\ ppushing' = [ppushing EXCEPT ![n] = @ - 1]
          /\ prun' = prun
    /\ pdone' = [pdone EXCEPT ![n] = @ + 1]
    /\ ppc' = [ppc EXCEPT ![n] = "failing"]
    /\ UNCHANGED << pver, psubs, pblobs >>
    /\ UNCHANGED idleInPool

\* eg.Wait() returns the group's error, of a blob task or of a sub-artifact's
\* push, once every task has returned, and push(n) returns it (part_016
\* 116-118; client.go 152-154).
PoolWaitErr(n) ==
    /\ ppc[n] \in {"wait", "failing"}
    /\ pdone[n] = pblobs[n]
    /\ n = 1 => \A m \in SubArtifacts : ppc[m] \in {"done", "failed"}
    /\ \/ ppc[n] = "failing"
       \/ n = 1 /\ \E m \in SubArtifacts : ppc[m] = "failed"
    /\ ppc' = [ppc EXCEPT ![n] = "failed"]
    /\ UNCHANGED << pver, psubs, pblobs, prun, ppushing, pdone >>
    /\ UNCHANGED idleInPool

\* The manifest's pushIfNotExist returns an error and push(n) returns it
\* (part_016 150-152; client.go 183-185).
PoolManifestFails(n) ==
    /\ ppc[n] = "pushing"
    /\ ppc' = [ppc EXCEPT ![n] = "failed"]
    /\ UNCHANGED << pver, psubs, pblobs, prun, ppushing, pdone >>
    /\ UNCHANGED idleInPool

NextPool ==
    \/ \E n \in Artifacts : PoolLaunch(n)
    \/ \E n \in Artifacts : PoolBlobSubmit(n)
    \/ \E n \in Artifacts : PoolBlobDone(n)
    \/ \E n \in Artifacts : PoolManifestSubmit(n)
    \/ \E n \in Artifacts : PoolManifestDone(n)
    \/ \E n \in Artifacts : PoolBlobFails(n)
    \/ \E n \in Artifacts : PoolWaitErr(n)
    \/ \E n \in Artifacts : PoolManifestFails(n)

\* What a goroutine that can run does without any store operation failing:
\* the Go scheduler runs every runnable goroutine, a store operation returns,
\* and whether it returns an error is not the scheduler's choice.
PoolProgress ==
    \/ \E n \in Artifacts : PoolLaunch(n)
    \/ \E n \in Artifacts : PoolBlobSubmit(n)
    \/ \E n \in Artifacts : PoolBlobDone(n)
    \/ \E n \in Artifacts : PoolManifestSubmit(n)
    \/ \E n \in Artifacts : PoolManifestDone(n)
    \/ \E n \in Artifacts : PoolWaitErr(n)

PoolIdle ==
    /\ pver = "client.go" /\ psubs = 0
    /\ pblobs = [n \in Artifacts |-> 0]
    /\ ppc = [n \in Artifacts |-> "off"]
    /\ prun = [n \in Artifacts |-> 0]
    /\ ppushing = [n \in Artifacts |-> 0]
    /\ pdone = [n \in Artifacts |-> 0]

\* ---------------------------------------------------------------------------
\* The Inspector: inspect of src/unnamed/part_006 (and its older form in
\* src/unnamed/part_015), a depth-first walk that fetches and decodes each
\* node and recurses over the children its media type names.
\* ---------------------------------------------------------------------------

InspectVersions == {"part_006", "part_015"}

PkgMediaTypeBundleMetadata ==
    "application/vnd.cncf.operatorframework.olm.bundle.metadata.v1+json"

\* ctx.Err(), the store's error for a missing object, a decoder's error.
Canceled == "context canceled"
NotFound == "not found"
DecodeError == "decode failed"

\* The media types whose case of the switch recurses (part_006 44-56, 163-245).
InspectManifestTypes ==
    {MediaTypeArtifactManifest, MTOCIIndex, MTManifestList, MTOCIManifest, MTDockerSchema2}

\* The media types whose case of the switch decodes the fetched bytes and
\* returns the decoder's error; every other media type matches no case, or a
\* case that only prints the bytes, and inspect returns nil for it (part_006
\* 43-323 with the media types of api/v1; part_015 44-321 with the media types
\* of internal/pkg, whose properties and constraints cases print the bytes as
\* they are; its bundle content case, 119-147, names pkg.MediaTypeBundleContent,
\* taken here with the value api/v1 declares for that name). The layer case names schema2.MediaTypeLayer and
\* ocispec.MediaTypeImageLayer, the plain tar layer, and reads it as gzip.
InspectDecodedTypes(ver) ==
    InspectManifestTypes
        \cup {MTDockerLayer, MTOCILayer, MTOCIConfig, MTDockerConfig}
        \cup (IF ver = "part_006"
              THEN {MediaTypeBundleMetadata, MediaTypeProperties, MediaTypeConstraints,
                    "application/vnd.cncf.operatorframework.olm.package.metadata.v1+yaml",
                    "application/vnd.cncf.operatorframework.olm.channel.metadata.v1+yaml",
                    "application/vnd.cncf.operatorframework.olm.upgrade-edges.v1+yaml",
                    "application/vnd.cncf.operatorframework.olm.bundle.related-images.v1+yaml",
                    "application/vnd.cncf.operatorframework.olm.bundle.content.v1.tar+gzip"}
              ELSE {PkgMediaTypeBundleMetadata,
                    "application/vnd.cncf.operatorframework.olm.package.metadata.v1+json",
                    "application/vnd.cncf.operatorframework.olm.channel.metadata.v1+json",
                    "application/vnd.cncf.operatorframework.olm.upgrade-edges.v1+json",
                    "application/vnd.cncf.operatorframework.olm.bundle.content.v1.tar+gzip"})

InspectDecodes(ver, d) ==
    SrcObjects[d].mediaType \in InspectDecodedTypes(ver) => SrcObjects[d].decodes

\* The descriptors inspect recurses over, in order: an artifact's blobs, an
\* index's or a list's manifests, a manifest's config and then its layers.
InspectChildren(d) ==
    IF SrcObjects[d].mediaType \in InspectManifestTypes
    THEN SrcObjects[d].children
    ELSE << >>

ICall(d) == [d |-> d, i |-> 1, pc |-> "check"]
ITop == istack[Len(istack)]
ISetTop(f) == [istack EXCEPT ![Len(istack)] = f]

InitInspect ==
    /\ iver \in InspectVersions
    /\ iroot \in Objects
    /\ istore \in SUBSET Reach(iroot)
    /\ itag \in {0, iroot} \cap ({0} \cup istore)
    /\ ictx = "live"
    /\ istack = << ICall(iroot) >>
    /\ idone = FALSE
    /\ ierr = CNil
    /\ ifetched = << >>
    /\ istore0 = istore
    /\ itag0 = itag

\* An error returned by one call is returned by every caller (each call site
\* is "if err != nil { return err }"), so the walk ends with it.
InspectFail(e) ==
    /\ idone' = TRUE
    /\ ierr' = e
    /\ istack' = << >>

\* A check that never looks at the context.
InspectCheckBlind ==
    /\ ~idone /\ istack # << >> /\ ITop.pc = "check"
    /\ istack' = ISetTop([ITop EXCEPT !.pc = "fetch"])
    /\ UNCHANGED << iver, iroot, istore, itag, ictx, idone, ierr, ifetched, istore0, itag0 >>
    /\ UNCHANGED idleInInspect

\* part_006 27-31: the select on ctx.Done() at the head of inspect.
InspectCheck ==
    /\ ~idone /\ istack # << >> /\ ITop.pc = "check"
    /\ IF ictx = "canceled"
       THEN InspectFail(Canceled)
       ELSE /\ istack' = ISetTop([ITop EXCEPT !.pc = "fetch"])
            /\ UNCHANGED << idone, ierr >>
    /\ UNCHANGED << iver, iroot, istore, itag, ictx, ifetched, istore0, itag0 >>
    /\ UNCHANGED idleInInspect

\* A fetch that takes the object out of the store.
InspectFetchConsuming ==
    /\ ~idone /\ istack # << >> /\ ITop.pc = "fetch"
    /\ ITop.d \in istore
    /\ ifetched' = Append(ifetched, ITop.d)
    /\ istore' = istore \ {ITop.d}
    /\ IF InspectDecodes(iver, ITop.d)
       THEN /\ istack' = ISetTop([ITop EXCEPT !.pc = "body"])
            /\ UNCHANGED << idone, ierr >>
       ELSE InspectFail(DecodeError)
    /\ UNCHANGED << iver, iroot, itag, ictx, istore0, itag0 >>
    /\ UNCHANGED idleInInspect

\* part_006 37-41 and the decode at the head of the node's case: target.Fetch
\* succeeds and the bytes are decoded.
InspectFetch ==
    /\ ~idone /\ istack # << >> /\ ITop.pc = "fetch"
    /\ ITop.d \in istore
    /\ ifetched' = Append(ifetched, ITop.d)
    /\ IF InspectDecodes(iver, ITop.d)
       THEN /\ istack' = ISetTop([ITop EXCEPT !.pc = "body"])
            /\ UNCHANGED << idone, ierr >>
       ELSE InspectFail(DecodeError)
    /\ UNCHANGED << iver, iroot, istore, itag, ictx, istore0, itag0 >>
    /\ UNCHANGED idleInInspect

\* part_006 37-40: target.Fetch returns an error: the store does not hold the
\* object, or the context was cancelled after the check and the store gave up.
InspectFetchFails ==
    /\ ~idone /\ istack # << >> /\ ITop.pc = "fetch"
    /\ \E e \in {NotFound, Canceled} :
          /\ e = NotFound => ITop.d \notin istore
          /\ e = Canceled => ictx = "canceled"
          /\ InspectFail(e)
    /\ UNCHANGED << iver, iroot, istore, itag, ictx, ifetched, istore0, itag0 >>
    /\ UNCHANGED idleInInspect

\* A call for the next child that fetches the child ahead of the call.
InspectChildPrefetching ==
    /\ ~idone /\ istack # << >> /\ ITop.pc = "body"
    /\ ITop.i <= Len(InspectChildren(ITop.d))
    /\ istack' = Append(istack, ICall(InspectChildren(ITop.d)[ITop.i]))
    /\ ifetched' = Append(ifetched, InspectChildren(ITop.d)[ITop.i])
    /\ UNCHANGED << iver, iroot, istore, itag, ictx, idone, ierr, istore0, itag0 >>
    /\ UNCHANGED idleInInspect

\* The recursive call for the next child (part_006 52-56, 170-174, 181-198,
\* 205-214, 226-245).
InspectChild ==
    /\ ~idone /\ istack # << >> /\ ITop.pc = "body"
    /\ ITop.i <= Len(InspectChildren(ITop.d))
    /\ istack' = Append(istack, ICall(InspectChildren(ITop.d)[ITop.i]))
    /\ UNCHANGED << iver, iroot, istore, itag, ictx, idone, ierr, ifetched, istore0, itag0 >>
    /\ UNCHANGED idleInInspect

\* part_006 323: the node's case is over and inspect returns nil.
InspectReturn ==
    /\ ~idone /\ istack # << >> /\ ITop.pc = "body"
    /\ ITop.i > Len(InspectChildren(ITop.d))
    /\ IF Len(istack) = 1
       THEN /\ idone' = TRUE
            /\ ierr' = CNil
            /\ istack' = << >>
       ELSE /\ istack' = [k \in 1..(Len(istack) - 1) |->
                             IF k = Len(istack) - 1
                             THEN [istack[k] EXCEPT !.i = @ + 1]
                             ELSE istack[k]]
            /\ UNCHANGED << idone, ierr >>
    /\ UNCHANGED << iver, iroot, istore, itag, ictx, ifetched, istore0, itag0 >>
    /\ UNCHANGED idleInInspect

\* The caller cancels the context (cli/inspect.go: the command's context).
InspectCancel ==
    /\ ~idone /\ ictx = "live"
    /\ ictx' = "canceled"
    /\ UNCHANGED << iver, iroot, istore, itag, istack, idone, ierr, ifetched, istore0, itag0 >>
    /\ UNCHANGED idleInInspect

NextInspect ==
    \/ InspectCheck
    \/ InspectFetch
    \/ InspectFetchFails
    \/ InspectChild
    \/ InspectReturn
    \/ InspectCancel

InspectIdle ==
    /\ iver = "part_006"
    /\ iroot = 1
    /\ istore = {}
    /\ itag = 0
    /\ ictx = "live"
    /\ istack = << >>
    /\ idone = TRUE
    /\ ierr = CNil
    /\ ifetched = << >>
    /\ istore0 = {}
    /\ itag0 = 0

\* ---------------------------------------------------------------------------
\* Upgrade-edge expansion: loadUpgradeEdges of src/cmd/createcatalog/main.go
\* 373-423 (the same code in src/internal/pkg/pkg.go 154-202).
\* ---------------------------------------------------------------------------

\* Versions are MAJOR.0.0, written by their major number.
SampleVersions == {1, 2, 10}
SampleReleases == {0, 1, 2, 10}
Releases == [version : SampleVersions, release : SampleReleases]
BundleSets == {bs \in SUBSET Releases : Cardinality(bs) <= MaxBundles}
\* A declaration is absent for a version, or lists no target, or one target.
TargetLists == {<< >>} \cup {<< v >> : v \in SampleVersions}
Declarations == UNION {[vs -> TargetLists] : vs \in SUBSET SampleVersions}

\* The characters of a decimal number, as byte values (fmt's %d).
Digits(n) == IF n < 10 THEN << 48 + n >> ELSE << 48 + (n \div 10), 48 + (n % 10) >>

\* fullVersion: fmt.Sprintf("%s-%d", version, release), as bytes
\* ('.' is 46, '-' is 45, '0' is 48).
fullVersion(b) == Digits(b.version) \o << 46, 48, 46, 48, 45 >> \o Digits(b.release)

\* Go's < on strings: byte-wise lexicographic order.
RECURSIVE StringLess(_, _)
StringLess(a, b) ==
    IF b = << >> THEN FALSE
    ELSE IF a = << >> THEN TRUE
    ELSE IF Head(a) # Head(b) THEN Head(a) < Head(b)
    ELSE StringLess(Tail(a), Tail(b))

\* sort.Sort(sort.Reverse(sort.StringSlice(s))): descending string order.
RECURSIVE SortReverseStrings(_)
SortReverseStrings(s) ==
    IF s = << >> THEN << >>
    ELSE LET k == CHOOSE k \in 1..Len(s) :
                      \A j \in 1..Len(s) : ~StringLess(fullVersion(s[k]), fullVersion(s[j]))
         IN << s[k] >> \o SortReverseStrings([j \in 1..(Len(s) - 1) |->
                                                 IF j < k THEN s[j] ELSE s[j + 1]])

\* sort.Slice by Metadata.Release: ascending release numbers.
RECURSIVE SortByRelease(_)
SortByRelease(bs) ==
    IF bs = {} THEN << >>
    ELSE LET b == CHOOSE b \in bs : \A c \in bs : b.release <= c.release
         IN << b >> \o SortByRelease(bs \ {b})

\* byVersion after the grouping loops (main.go 385-410).
ByVersion(bs) ==
    [v \in SampleVersions |-> SortByRelease({b \in bs : b.version = v})]

InitEdges ==
    /\ ebundles \in BundleSets
    /\ upgradeEdges \in Declarations
    /\ byVersion = ByVersion(ebundles)
    /\ finalUpgradeEdges = << >>
    /\ etodo = DOMAIN upgradeEdges
    /\ efrom = 0
    /\ ei = 1
    /\ edone = FALSE
    /\ epanic = FALSE

\* main.go 413: the outer loop takes the next declared version; a Go map is
\* ranged over in no fixed order.
EdgesNextVersion ==
    /\ ~edone /\ efrom = 0
    /\ \E v \in etodo :
          /\ efrom' = v
          /\ etodo' = etodo \ {v}
    /\ ei' = 1
    /\ UNCHANGED << ebundles, upgradeEdges, byVersion, finalUpgradeEdges, edone, epanic >>
    /\ UNCHANGED idleInEdges

\* The last element of each target version's releases, appended in order
\* (main.go 416-418).
HighestOf(tos) == [k \in 1..Len(tos) |-> byVersion[tos[k]][Len(byVersion[tos[k]])]]

\* main.go 414-420: one round of the inner loop. With no declared target the
\* list sorted in place is a slice of byVersion[efrom]'s own array; with a
\* target, append has copied it first (the slice is full: len = cap).
EdgesRelease ==
    /\ ~edone /\ efrom # 0
    /\ ei <= Len(byVersion[efrom])
    /\ LET tos == upgradeEdges[efrom]
           fromRelease == byVersion[efrom][ei]
           rest == SubSeq(byVersion[efrom], ei + 1, Len(byVersion[efrom]))
       IN IF \E k \in 1..Len(tos) : byVersion[tos[k]] = << >>
          THEN /\ epanic' = TRUE
               /\ edone' = TRUE
               /\ UNCHANGED << byVersion, finalUpgradeEdges, ei >>
          ELSE /\ finalUpgradeEdges' =
                      [r \in DOMAIN finalUpgradeEdges \cup {fromRelease} |->
                          IF r = fromRelease
                          THEN SortReverseStrings(rest \o HighestOf(tos))
                          ELSE finalUpgradeEdges[r]]
               /\ byVersion' =
                      IF tos = << >>
                      THEN [byVersion EXCEPT ![efrom] =
                               SubSeq(@, 1, ei) \o SortReverseStrings(rest)]
                      ELSE byVersion
               /\ ei' = ei + 1
               /\ UNCHANGED << edone, epanic >>
    /\ UNCHANGED << ebundles, upgradeEdges, etodo, efrom >>
    /\ UNCHANGED idleInEdges

\* The inner loop is over; back to the outer one.
EdgesVersionDone ==
    /\ ~edone /\ efrom # 0
    /\ ei > Len(byVersion[efrom])
    /\ efrom' = 0
    /\ UNCHANGED << ebundles, upgradeEdges, byVersion, finalUpgradeEdges, etodo, ei,
                    edone, epanic >>
    /\ UNCHANGED idleInEdges

\* main.go 422: return finalUpgradeEdges.
EdgesReturn ==
    /\ ~edone /\ efrom = 0 /\ etodo = {}
    /\ edone' = TRUE
    /\ UNCHANGED << ebundles, upgradeEdges, byVersion, finalUpgradeEdges, etodo, efrom, ei,
                    epanic >>
    /\ UNCHANGED idleInEdges

NextEdges ==
    \/ EdgesNextVersion
    \/ EdgesRelease
    \/ EdgesVersionDone
    \/ EdgesReturn

EdgesIdle ==
    /\ ebundles = {}
    /\ upgradeEdges = << >>
    /\ byVersion = ByVersion({})
    /\ finalUpgradeEdges = << >>
    /\ etodo = {}
    /\ efrom = 0
    /\ ei = 1
    /\ edone = TRUE
    /\ epanic = FALSE

\* ---------------------------------------------------------------------------
\* A bundle's metadata from construction to inspection: BundleMetadata.Data
\* (src/cmd/createcatalog/main.go 926-942, package api/v1; internal/pkg/pkg.go
\* 573-589) and the bundle-metadata case of inspect (src/unnamed/part_006
\* 83-91, 356-360; src/unnamed/part_015 106-118).
\* ---------------------------------------------------------------------------

PkgVersions == {"api/v1", "internal/pkg"}

\* Package names as bytes: "a", "etc", "10", "7", "07", "1e3", "no", ".5_0",
\* "1:30", "-", and "a" followed by the byte 0x7f.
SamplePackages == {<< 97 >>, << 101, 116, 99 >>, << 49, 48 >>, << 55 >>, << 48, 55 >>,
                   << 49, 101, 51 >>, << 110, 111 >>, << 46, 53, 95, 48 >>,
                   << 49, 58, 51, 48 >>, << 45 >>, << 97, 127 >>}
\* semver versions as << major, minor, patch >>.
SampleSemvers == {<< 1, 0, 0 >>, << 2, 0, 0 >>, << 10, 0, 0 >>, << 1, 2, 3 >>, << 0, 10, 1 >>}
BundleMetadata == [package : SamplePackages, version : SampleSemvers, release : SampleReleases]

\* semver.Version.String(): MAJOR.MINOR.PATCH.
VersionString(v) == Digits(v[1]) \o << 46 >> \o Digits(v[2]) \o << 46 >> \o Digits(v[3])

AllDigits(s) == s # << >> /\ \A k \in 1..Len(s) : s[k] \in 48..57

\* ---- How the YAML library reads a plain scalar: resolve of gopkg.in/yaml.v2,
\* the library under sigs.k8s.io/yaml. yaml.Marshal uses it to decide whether
\* a string needs quotes, yaml.Unmarshal to type a plain scalar. The texts are
\* ASCII bytes; strconv and time behave as in Go 1.20 and later.

\* The words of resolveMap.
TrueWords ==
    {<< 121 >>, << 89 >>, << 121, 101, 115 >>, << 89, 101, 115 >>,
     << 89, 69, 83 >>, << 116, 114, 117, 101 >>, << 84, 114, 117, 101 >>,
     << 84, 82, 85, 69 >>, << 111, 110 >>, << 79, 110 >>, << 79, 78 >>}
FalseWords ==
    {<< 110 >>, << 78 >>, << 110, 111 >>, << 78, 111 >>, << 78, 79 >>,
     << 102, 97, 108, 115, 101 >>, << 70, 97, 108, 115, 101 >>,
     << 70, 65, 76, 83, 69 >>, << 111, 102, 102 >>, << 79, 102, 102 >>,
     << 79, 70, 70 >>}
NullWords == {<< >>, << 126 >>, << 110, 117, 108, 108 >>, << 78, 117, 108, 108 >>, << 78, 85, 76, 76 >>}
NaNWords == {<< 46, 110, 97, 110 >>, << 46, 78, 97, 78 >>, << 46, 78, 65, 78 >>}
PosInfWords ==
    {<< 46, 105, 110, 102 >>, << 46, 73, 110, 102 >>,
     << 46, 73, 78, 70 >>, << 43, 46, 105, 110, 102 >>,
     << 43, 46, 73, 110, 102 >>, << 43, 46, 73, 78, 70 >>}
NegInfWords == {<< 45, 46, 105, 110, 102 >>, << 45, 46, 73, 110, 102 >>, << 45, 46, 73, 78, 70 >>}

\* strings.Replace(in, "_", "", -1).
RemoveUnderscores(s) == SelectSeq(s, LAMBDA c : c # 95)

HasSign(s) == s # << >> /\ s[1] \in {43, 45}
Negative(s) == s # << >> /\ s[1] = 45
Unsigned(s) == IF HasSign(s) THEN Tail(s) ELSE s

\* The byte at a position, 0 where the text has none.
ByteAt(s, i) == IF i \in 1..Len(s) THEN s[i] ELSE 0

IsDigitAt(s, i) == ByteAt(s, i) \in 48..57

\* The value of a digit in bases up to 16; 99 for any other byte.
DigitValue(c) ==
    IF c \in 48..57 THEN c - 48
    ELSE IF c \in 97..102 THEN c - 87
    ELSE IF c \in 65..70 THEN c - 55
    ELSE 99

\* The base and the digits strconv.ParseInt(s, 0, 64) reads from an unsigned
\* text: 0x, 0b and 0o prefixes, a leading 0 for octal, decimal otherwise.
BaseOf(u) ==
    IF Len(u) > 2 /\ u[1] = 48 /\ u[2] \in {120, 88} THEN 16
    ELSE IF Len(u) > 2 /\ u[1] = 48 /\ u[2] \in {98, 66} THEN 2
    ELSE IF Len(u) > 2 /\ u[1] = 48 /\ u[2] \in {111, 79} THEN 8
    ELSE IF Len(u) > 1 /\ u[1] = 48 THEN 8
    ELSE 10
BaseDigits(u) ==
    IF Len(u) > 2 /\ u[1] = 48 /\ u[2] \in {120, 88, 98, 66, 111, 79}
    THEN SubSeq(u, 3, Len(u))
    ELSE IF Len(u) > 1 /\ u[1] = 48 THEN Tail(u)
    ELSE u

\* Whether the digits are some, and all of the base.
DigitsOfBase(ds, base) ==
    ds # << >> /\ \A k \in 1..Len(ds) : DigitValue(ds[k]) < base

\* The value of a string of digits in a base.
RECURSIVE ParseBase(_, _)
ParseBase(s, base) ==
    IF s = << >> THEN 0
    ELSE base * ParseBase(SubSeq(s, 1, Len(s) - 1), base) + DigitValue(s[Len(s)])

\* The digits of a text without its leading zeros.
StripLeadingZeros(s) ==
    IF \A k \in 1..Len(s) : s[k] = 48 THEN << >>
    ELSE SubSeq(s, CHOOSE k \in 1..Len(s) : s[k] # 48 /\ \A l \in 1..(k - 1) : s[l] = 48,
                Len(s))

StripTrailingZeros(s) ==
    IF \A k \in 1..Len(s) : s[k] = 48 THEN << >>
    ELSE SubSeq(s, 1,
                CHOOSE k \in 1..Len(s) : s[k] # 48 /\ \A l \in (k + 1)..Len(s) : s[l] = 48)

\* The value of the digit at a position, 0 beyond the digits.
ValueAt(ds, k) == IF k \in 1..Len(ds) THEN DigitValue(ds[k]) ELSE 0

\* Whether 0.a is below 0.b, a and b being digits.
FractionLess(a, b) ==
    \E k \in 1..(Len(a) + Len(b)) :
        /\ ValueAt(a, k) < ValueAt(b, k)
        /\ \A l \in 1..(k - 1) : ValueAt(a, l) = ValueAt(b, l)

\* Whether the number a is at most the number b, both without leading zeros.
MagnitudeLeq(a, b) == Len(a) < Len(b) \/ (Len(a) = Len(b) /\ ~FractionLess(b, a))

Repeat(c, n) == [k \in 1..n |-> c]

\* 2^63 - 1, 2^63 and 2^64 - 1 in the digits of a base.
MaxInt64Digits(base) ==
    CASE base = 10 -> << 57, 50, 50, 51, 51, 55, 50, 48, 51, 54, 56, 53, 52, 55, 55, 53, 56, 48, 55 >>
      [] base = 16 -> << 55 >> \o Repeat(102, 15)
      [] base = 8 -> Repeat(55, 21)
      [] base = 2 -> Repeat(49, 63)
MinInt64Digits(base) ==
    CASE base = 10 -> << 57, 50, 50, 51, 51, 55, 50, 48, 51, 54, 56, 53, 52, 55, 55, 53, 56, 48, 56 >>
      [] base = 16 -> << 56 >> \o Repeat(48, 15)
      [] base = 8 -> << 49 >> \o Repeat(48, 21)
      [] base = 2 -> << 49 >> \o Repeat(48, 63)
MaxUint64Digits(base) ==
    CASE base = 10 -> << 49, 56, 52, 52, 54, 55, 52, 52, 48, 55, 51, 55, 48, 57, 53, 53, 49, 54, 49, 53 >>
      [] base = 16 -> Repeat(102, 16)
      [] base = 8 -> << 49 >> \o Repeat(55, 21)
      [] base = 2 -> Repeat(49, 64)

\* Whether digits of a base, behind the sign given, stand for a number
\* strconv.ParseInt(_, _, 64) holds in an int64.
FitsInt64(ds, base, neg) ==
    MagnitudeLeq(StripLeadingZeros(ds),
                 IF neg THEN MinInt64Digits(base) ELSE MaxInt64Digits(base))

\* The same for strconv.ParseUint(_, _, 64), which takes no sign.
FitsUint64(ds, base) == MagnitudeLeq(StripLeadingZeros(ds), MaxUint64Digits(base))

\* Whether strconv.ParseInt(u, 0, 64) with the sign given, or else
\* strconv.ParseUint(u, 0, 64) when there is no sign, returns no error.
ParsesBase0(u, signed, neg) ==
    /\ DigitsOfBase(BaseDigits(u), BaseOf(u))
    /\ IF signed THEN FitsInt64(BaseDigits(u), BaseOf(u), neg)
       ELSE FitsUint64(BaseDigits(u), BaseOf(u))

\* resolve's integer test on the text without underscores: ParseInt, then
\* ParseUint, both of base 0 and 64 bits.
IsInt(plain) == ParsesBase0(Unsigned(plain), HasSign(plain), Negative(plain))

\* resolve's last test: after "0b", strconv.ParseInt(plain[2:], 2, 64) takes
\* a sign in front of binary digits. (Without a sign the text is an integer
\* by the first test already; "-0b" followed by a sign parses in no way.)
IsSignedBinary(plain) ==
    /\ Len(plain) > 3
    /\ plain[1] = 48 /\ plain[2] = 98 /\ plain[3] \in {43, 45}
    /\ DigitsOfBase(SubSeq(plain, 4, Len(plain)), 2)
    /\ FitsInt64(SubSeq(plain, 4, Len(plain)), 2, plain[3] = 45)

\* An integer's text with its sign in front.
IntText(plain) ==
    IF IsSignedBinary(plain)
    THEN << plain[3], 48, 98 >> \o SubSeq(plain, 4, Len(plain))
    ELSE plain

\* Numbers are computed while they fit the arithmetic used here; the text
\* that stands for a number too great for it.
Beyond == << -1 >>

FitsBase(ds, base) ==
    Len(ds) <= (CASE base = 16 -> 7 [] base = 10 -> 9 [] base = 8 -> 10 [] OTHER -> 30)

IntInRange(plain) ==
    FitsBase(StripLeadingZeros(BaseDigits(Unsigned(plain))), BaseOf(Unsigned(plain)))

\* The magnitude strconv.ParseInt(plain, 0, 64) returns.
IntMagnitude(plain) == ParseBase(StripLeadingZeros(BaseDigits(Unsigned(plain))), BaseOf(Unsigned(plain)))

\* strings.IndexRune, counted from 1; 0 when the byte is absent.
IndexRune(s, c) ==
    IF \E k \in 1..Len(s) : s[k] = c
    THEN CHOOSE k \in 1..Len(s) : s[k] = c /\ \A l \in 1..(k - 1) : s[l] # c
    ELSE 0

\* The first of two positions, 0 standing for none.
FirstIndex(a, b) == IF a = 0 THEN b ELSE IF b = 0 THEN a ELSE IF a < b THEN a ELSE b

\* A mantissa's integer digits, whether it has a point, its fraction digits.
MantissaParts(mant, di) ==
    [ip |-> IF di = 0 THEN mant ELSE SubSeq(mant, 1, di - 1),
     dot |-> di # 0,
     fp |-> IF di = 0 THEN << >> ELSE SubSeq(mant, di + 1, Len(mant))]

MantissaOf(mant) == MantissaParts(mant, IndexRune(mant, 46))

\* The parts of an unsigned float's text split at its e or E: the mantissa's
\* parts, whether it has an exponent, and the exponent's text.
PartsAt(u, xi) ==
    [m |-> MantissaOf(IF xi = 0 THEN u ELSE SubSeq(u, 1, xi - 1)),
     hasExp |-> xi # 0,
     exp |-> IF xi = 0 THEN << >> ELSE SubSeq(u, xi + 1, Len(u))]

PartsOfUnsigned(u) == PartsAt(u, FirstIndex(IndexRune(u, 101), IndexRune(u, 69)))

FloatParts(plain) == PartsOfUnsigned(Unsigned(plain))

OnlyDigits(s) == \A k \in 1..Len(s) : s[k] \in 48..57

\* yamlStyleFloat: ^[-+]?(\.[0-9]+|[0-9]+(\.[0-9]*)?)([eE][-+]?[0-9]+)?$
FloatSyntax(p) ==
    /\ OnlyDigits(p.m.ip) /\ OnlyDigits(p.m.fp)
    /\ (p.m.ip # << >> \/ (p.m.dot /\ p.m.fp # << >>))
    /\ p.hasExp => AllDigits(Unsigned(p.exp))

\* strconv's underscoreOK for a decimal text: an underscore stands between
\* two digits.
UnderscoreOK(s) ==
    \A k \in 1..Len(s) : s[k] = 95 => (IsDigitAt(s, k - 1) /\ IsDigitAt(s, k + 1))

\* The exponent's magnitude as strconv counts it, from digits without leading
\* zeros: a digit is added while the number is below 10000 (e = e*10 + digit)
\* and dropped afterwards, so the first five digits make the number.
ExponentMagnitude(ds) == ParseBase(IF Len(ds) > 5 THEN SubSeq(ds, 1, 5) ELSE ds, 10)

\* The exponent's value.
ExponentOf(p) ==
    IF p.hasExp
    THEN (IF Negative(p.exp) THEN -1 ELSE 1)
             * ExponentMagnitude(StripLeadingZeros(Unsigned(p.exp)))
    ELSE 0

\* A decimal: its digits without leading and trailing zeros, and the position
\* dp of the point (0.d1d2... * 10^dp); of all the digits, zeros were leading.
Decimal(neg, ds, zeros, dp0) ==
    [neg |-> neg, digits |-> ds, dp |-> IF ds = << >> THEN 0 ELSE dp0 - zeros]

Normalised(neg, all, lead, dp0) ==
    Decimal(neg, StripTrailingZeros(lead), Len(all) - Len(lead), dp0)

DecimalOfParts(neg, p) ==
    Normalised(neg, p.m.ip \o p.m.fp, StripLeadingZeros(p.m.ip \o p.m.fp),
               Len(p.m.ip) + ExponentOf(p))

\* The decimal a float's text stands for.
FloatDecimal(plain) == DecimalOfParts(Negative(plain), FloatParts(plain))

Float64Limit ==
    << 49, 55, 57, 55, 54, 57, 51, 49, 51, 52, 56, 54, 50, 51, 49, 53, 56, 48, 55, 57,
       51, 55, 50, 56, 57, 55, 49, 52, 48, 53, 51, 48, 51, 52, 49, 53, 48, 55, 57, 57,
       51, 52, 49, 51, 50, 55, 49, 48, 48, 51, 55, 56, 50, 54, 57, 51, 54, 49, 55, 51,
       55, 55, 56, 57, 56, 48, 52, 52, 52, 57, 54, 56, 50, 57, 50, 55, 54, 52, 55, 53,
       48, 57, 52, 54, 54, 52, 57, 48, 49, 55, 57, 55, 55, 53, 56, 55, 50, 48, 55, 48,
       57, 54, 51, 51, 48, 50, 56, 54, 52, 49, 54, 54, 57, 50, 56, 56, 55, 57, 49, 48,
       57, 52, 54, 53, 53, 53, 53, 52, 55, 56, 53, 49, 57, 52, 48, 52, 48, 50, 54, 51,
       48, 54, 53, 55, 52, 56, 56, 54, 55, 49, 53, 48, 53, 56, 50, 48, 54, 56, 49, 57,
       48, 56, 57, 48, 50, 48, 48, 48, 55, 48, 56, 51, 56, 51, 54, 55, 54, 50, 55, 51,
       56, 53, 52, 56, 52, 53, 56, 49, 55, 55, 49, 49, 53, 51, 49, 55, 54, 52, 52, 55,
       53, 55, 51, 48, 50, 55, 48, 48, 54, 57, 56, 53, 53, 53, 55, 49, 51, 54, 54, 57,
       53, 57, 54, 50, 50, 56, 52, 50, 57, 49, 52, 56, 49, 57, 56, 54, 48, 56, 51, 52,
       57, 51, 54, 52, 55, 53, 50, 57, 50, 55, 49, 57, 48, 55, 52, 49, 54, 56, 52, 52,
       52, 51, 54, 53, 53, 49, 48, 55, 48, 52, 51, 52, 50, 55, 49, 49, 53, 53, 57, 54,
       57, 57, 53, 48, 56, 48, 57, 51, 48, 52, 50, 56, 56, 48, 49, 55, 55, 57, 48, 52,
       49, 55, 52, 52, 57, 55, 55, 57, 50 >>

\* Whether strconv.ParseFloat(_, 64) returns a range error: the decimal is
\* 2^1024 - 2^970 at least, the numbers that round to infinity.
Overflows(d) ==
    /\ d.digits # << >>
    /\ \/ d.dp > 309
       \/ d.dp = 309 /\ ~FractionLess(d.digits, Float64Limit)

\* resolve's float test on a text without underscores: yamlStyleFloat
\* matches and strconv.ParseFloat(plain, 64) returns no error.
IsFloat(plain) == FloatSyntax(FloatParts(plain)) /\ ~Overflows(FloatDecimal(plain))

\* resolve's test of a scalar that starts with a point:
\* strconv.ParseFloat(in, 64), which takes underscores between digits,
\* returns no error.
IsPointFloat(in) == UnderscoreOK(in) /\ IsFloat(RemoveUnderscores(in))

\* The days of the months of a year.
DaysIn(year) ==
    << 31, IF year % 4 = 0 /\ (year % 100 # 0 \/ year % 400 = 0) THEN 29 ELSE 28,
       31, 30, 31, 30, 31, 31, 30, 31, 30, 31 >>

\* time's getnum(s, false) at a position: a number of one or two digits and
\* the position behind it, 0 when there is no digit.
GetNum(s, i) ==
    IF ~IsDigitAt(s, i) THEN [v |-> 0, n |-> 0]
    ELSE IF ~IsDigitAt(s, i + 1) THEN [v |-> s[i] - 48, n |-> i + 1]
    ELSE [v |-> 10 * (s[i] - 48) + (s[i + 1] - 48), n |-> i + 2]

\* The position behind a number read by getnum when it is within lo..hi;
\* 0 stands for a failed parse, here and below.
NumberWithin(g, lo, hi) == IF g.n # 0 /\ g.v \in lo..hi THEN g.n ELSE 0

NumberAt(s, p, lo, hi) == IF p = 0 THEN 0 ELSE NumberWithin(GetNum(s, p), lo, hi)

\* The position behind a byte of the layout.
Literal(s, p, c) == IF p # 0 /\ ByteAt(s, p) = c THEN p + 1 ELSE 0

\* The position behind the day of a month, given the month read.
DayOf(s, year, g) ==
    IF g.n # 0 /\ g.v \in 1..12
    THEN NumberAt(s, Literal(s, g.n, 45), 1, DaysIn(year)[g.v])
    ELSE 0

\* The position behind a date in the layout 2006-1-2: parseTimestamp looks
\* for four digits and a hyphen first.
DateEnd(s) ==
    IF Len(s) > 4 /\ AllDigits(SubSeq(s, 1, 4)) /\ s[5] = 45
    THEN DayOf(s, ParseBase(SubSeq(s, 1, 4), 10), GetNum(s, 6))
    ELSE 0

RECURSIVE SkipDigits(_, _)
SkipDigits(s, p) == IF IsDigitAt(s, p) THEN SkipDigits(s, p + 1) ELSE p

RECURSIVE SkipSpaces(_, _)
SkipSpaces(s, p) == IF ByteAt(s, p) = 32 THEN SkipSpaces(s, p + 1) ELSE p

\* The fraction of a second, which may be absent: a point or a comma and
\* digits, as many as there are.
FractionEnd(s, p) ==
    IF p # 0 /\ ByteAt(s, p) \in {46, 44} /\ IsDigitAt(s, p + 1)
    THEN SkipDigits(s, p + 1)
    ELSE p

\* The position behind a time of day in the layout 15:4:5.999999999.
TimeEnd(s, p) ==
    FractionEnd(s,
        NumberAt(s, Literal(s, NumberAt(s, Literal(s, NumberAt(s, p, 0, 23), 58), 0, 59), 58),
                 0, 59))

\* The position behind a zone in the layout Z07:00: Z, or a sign, two digits
\* of hours up to 24, a colon and two digits of minutes up to 60.
ZoneEnd(s, p) ==
    IF p = 0 THEN 0
    ELSE IF ByteAt(s, p) = 90 THEN p + 1
    ELSE IF /\ ByteAt(s, p) \in {43, 45}
            /\ IsDigitAt(s, p + 1) /\ IsDigitAt(s, p + 2)
            /\ ByteAt(s, p + 3) = 58
            /\ IsDigitAt(s, p + 4) /\ IsDigitAt(s, p + 5)
            /\ GetNum(s, p + 1).v <= 24
            /\ GetNum(s, p + 4).v <= 60
    THEN p + 6
    ELSE 0

\* A layout's blank takes all the blanks of the text, one at least.
BlanksEnd(s, p) == IF p # 0 /\ ByteAt(s, p) = 32 THEN SkipSpaces(s, p) ELSE 0

\* Whether one of allowedTimestampFormats parses the text, the date ending
\* in front of position e: the date with T or t, a time and a zone; with
\* blanks and a time; the date alone.
TimestampFrom(s, e) ==
    /\ e # 0
    /\ \/ e = Len(s) + 1
       \/ ZoneEnd(s, TimeEnd(s, Literal(s, e, 84))) = Len(s) + 1
       \/ ZoneEnd(s, TimeEnd(s, Literal(s, e, 116))) = Len(s) + 1
       \/ TimeEnd(s, BlanksEnd(s, e)) = Len(s) + 1

\* parseTimestamp.
IsTimestamp(in) == TimestampFrom(in, DateEnd(in))

\* resolve("", in): the tag a plain scalar resolves to. Only a scalar that
\* starts with a byte of resolveTable is looked at; the words of resolveMap
\* first; a scalar that starts with a point may be a float; one that starts
\* with a digit or a sign may be a timestamp, an integer of any base, a float
\* or a signed binary integer, numbers being read without their underscores.
resolveTag(in) ==
    IF in \in NullWords THEN "null"
    ELSE IF in \in TrueWords \cup FalseWords THEN "bool"
    ELSE IF in \in NaNWords \cup PosInfWords \cup NegInfWords THEN "float"
    ELSE IF in[1] = 46
         THEN (IF IsPointFloat(in) THEN "float" ELSE "str")
    ELSE IF in[1] \in (48..57) \cup {43, 45}
         THEN (IF IsTimestamp(in) THEN "timestamp"
               ELSE IF IsInt(RemoveUnderscores(in)) THEN "int"
               ELSE IF IsFloat(RemoveUnderscores(in)) THEN "float"
               ELSE IF IsSignedBinary(RemoveUnderscores(in)) THEN "int"
               ELSE "str")
    ELSE "str"

\* strings.Split(s, sep) on one byte: every part.
RECURSIVE SplitByte(_, _, _)
SplitByte(s, cur, sep) ==
    IF s = << >> THEN << cur >>
    ELSE IF Head(s) = sep THEN << cur >> \o SplitByte(Tail(s), << >>, sep)
    ELSE SplitByte(Tail(s), Append(cur, Head(s)), sep)

\* A group of base60float behind its colon: [0-5]?[0-9].
SexagesimalGroup(g) ==
    \/ Len(g) = 1 /\ g[1] \in 48..57
    \/ Len(g) = 2 /\ g[1] \in 48..53 /\ g[2] \in 48..57

\* The head and the groups of base60float: [0-9][0-9_]*(:[0-5]?[0-9])+
SexagesimalGroups(parts) ==
    /\ Len(parts) > 1
    /\ parts[1] # << >> /\ parts[1][1] \in 48..57
    /\ \A k \in 1..Len(parts[1]) : parts[1][k] \in (48..57) \cup {95}
    /\ \A k \in 2..Len(parts) : SexagesimalGroup(parts[k])

\* The text in front of the first point and the text behind it.
Base60Parts(u, di) ==
    /\ SexagesimalGroups(SplitByte(IF di = 0 THEN u ELSE SubSeq(u, 1, di - 1), << >>, 58))
    /\ di # 0 => \A k \in (di + 1)..Len(u) : u[k] \in (48..57) \cup {95}

\* isBase60Float of the encoder:
\* ^[-+]?[0-9][0-9_]*(?::[0-5]?[0-9])+(?:\.[0-9_]*)?$
isBase60Float(s) == Base60Parts(Unsigned(s), IndexRune(Unsigned(s), 46))

\* The emitter's blank, and what it takes for white space around a byte:
\* a blank or an end of the text.
IsBlankAt(s, i) == ByteAt(s, i) \in {32, 9}
WhitespaceAt(s, i) == i < 1 \/ i > Len(s) \/ IsBlankAt(s, i)

\* The bytes that indicate something wherever a scalar starts with them:
\* # , [ ] { } & * ! | > ' " % @ `
StartIndicators == {35, 44, 91, 93, 123, 125, 38, 42, 33, 124, 62, 39, 34, 37, 64, 96}

\* block_indicators of yaml_emitter_analyze_scalar.
BlockIndicators(s) ==
    \/ Len(s) > 2 /\ s[1] = s[2] /\ s[2] = s[3] /\ s[1] \in {45, 46}
    \/ s[1] \in StartIndicators
    \/ s[1] \in {63, 58, 45} /\ WhitespaceAt(s, 2)
    \/ \E k \in 2..Len(s) :
           \/ s[k] = 58 /\ WhitespaceAt(s, k + 1)
           \/ s[k] = 35 /\ IsBlankAt(s, k - 1)

\* block_plain_allowed of the emitter for a text that is not empty: no
\* indicator of the block context, no blank at either end, and printable
\* bytes only (a line break makes the encoder choose the literal style).
BlockPlainAllowed(s) ==
    /\ \A k \in 1..Len(s) : s[k] \in 32..126
    /\ s[1] # 32 /\ s[Len(s)] # 32
    /\ ~BlockIndicators(s)

\* Whether the encoder's stringv and the emitter write the string as a plain
\* scalar: it resolves to a string, is no base 60 float, and the emitter
\* allows the plain style.
WrittenPlain(s) == resolveTag(s) = "str" /\ ~isBase60Float(s) /\ BlockPlainAllowed(s)

\* json.Marshal escapes the control bytes below 0x20 and writes 0x7f as it
\* is; the YAML reader (yaml_parser_update_buffer) takes tab, line feed,
\* carriage return and 0x20 to 0x7e of the ASCII bytes and refuses a document
\* with a raw 0x7f: "control characters are not allowed".
RawControl(s) == \E k \in 1..Len(s) : s[k] = 127

\* yaml.Marshal's error: sigs.k8s.io/yaml marshals to JSON first and reads
\* the JSON with the YAML library (JSONToYAML).
NoScalar == [err |-> "control characters are not allowed"]

\* A scalar of the marshalled document: its text, and whether it is written
\* in another style than the plain one (quoted or literal).
YAMLStringPlain(s) == IF RawControl(s) THEN NoScalar ELSE [text |-> s, quoted |-> FALSE]
YAMLString(s) == IF RawControl(s) THEN NoScalar ELSE [text |-> s, quoted |-> ~WrittenPlain(s)]
\* json.Marshal quotes every string.
JSONString(s) == [text |-> s, quoted |-> TRUE]
NumberScalar(n) == [text |-> Digits(n), quoted |-> FALSE]

\* Whether Data() returns an error: yaml.Marshal's, in api/v1.
DataFails(ver, bm) == ver = "api/v1" /\ RawControl(bm.package)

NoDocument == [err |-> "control characters are not allowed"]

\* BundleMetadata.Data(): yaml.Marshal(bm) in api/v1, json.Marshal(bm) in
\* internal/pkg. The version is marshalled as its string (semver's
\* MarshalJSON). readable: whether the YAML reader takes every byte of the
\* document.
Data(ver, bm) ==
    IF DataFails(ver, bm) THEN NoDocument
    ELSE [package |-> IF ver = "api/v1" THEN YAMLString(bm.package) ELSE JSONString(bm.package),
          version |-> IF ver = "api/v1" THEN YAMLString(VersionString(bm.version))
                      ELSE JSONString(VersionString(bm.version)),
          release |-> NumberScalar(bm.release),
          readable |-> ~RawControl(bm.package)]

\* The media type the blob is pushed with (BundleMetadata.MediaType()).
BundleMetadataMediaType(ver) ==
    IF ver = "api/v1" THEN MediaTypeBundleMetadata ELSE PkgMediaTypeBundleMetadata

\* How the decoder reads a scalar: one that is not plain is a string; a
\* plain one is what it resolves to, and a timestamp decoded into an
\* interface stays the string it was written as.
DecodedTag(tag) == IF tag \in {"str", "timestamp"} THEN "string" ELSE tag

Resolve(sc) == IF sc.quoted THEN "string" ELSE DecodedTag(resolveTag(sc.text))

\* strconv.FormatInt(n, 10) of a number that is not negative.
RECURSIVE FormatInt(_)
FormatInt(n) ==
    IF n < 10 THEN << 48 + n >> ELSE FormatInt(n \div 10) \o << 48 + (n % 10) >>

\* The exponent of %e: its sign and two digits at least.
FormatExponent(exp) ==
    IF exp < 0
    THEN << 101, 45 >> \o (IF exp > -10 THEN << 48 >> ELSE << >>) \o FormatInt(-exp)
    ELSE << 101, 43 >> \o (IF exp < 10 THEN << 48 >> ELSE << >>) \o FormatInt(exp)

\* %e of strconv.FormatFloat: d.ddde+XX.
FormatE(digits, dp) ==
    << digits[1] >>
        \o (IF Len(digits) > 1 THEN << 46 >> \o Tail(digits) ELSE << >>)
        \o FormatExponent(dp - 1)

\* The digit at a position, 0 beyond the digits.
DigitAt(digits, k) == IF k \in 1..Len(digits) THEN digits[k] ELSE 48

\* %f of strconv.FormatFloat with as many decimals as the digits need.
FormatF(digits, dp) ==
    (IF dp > 0 THEN [k \in 1..dp |-> DigitAt(digits, k)] ELSE << 48 >>)
        \o (IF Len(digits) > dp
            THEN << 46 >> \o [k \in 1..(Len(digits) - dp) |-> DigitAt(digits, dp + k)]
            ELSE << >>)

\* strconv.FormatFloat(v, 'g', -1, 32) from the shortest digits of the
\* float32: the exponent form when the exponent is below -4 or not below 6.
FormatFloat(d) ==
    (IF d.neg THEN << 45 >> ELSE << >>)
        \o (IF d.digits = << >> THEN << 48 >>
            ELSE IF d.dp - 1 < -4 \/ d.dp - 1 >= 6 THEN FormatE(d.digits, d.dp)
            ELSE FormatF(d.digits, d.dp))

\* Whether the float32 nearest to the decimal has the decimal's own digits as
\* its shortest form: up to six digits within float32's normal range (from
\* 10^-37 to below 3.4 * 10^38), or a whole number up to 2^24.
Float32Exact(d) ==
    /\ \/ d.dp \in -36..38
       \/ d.dp = 39 /\ FractionLess(d.digits, << 51, 52 >>)
    /\ \/ Len(d.digits) <= 6
       \/ /\ d.dp <= 8
          /\ Len(d.digits) <= d.dp
          /\ ParseBase(d.digits, 10) * (10 ^ (d.dp - Len(d.digits))) <= 16777216

\* A decimal below 7 * 10^-46 is nearer to zero than to the least float32.
Float32Zero(d) ==
    d.digits = << >> \/ d.dp <= -46 \/ (d.dp = -45 /\ FractionLess(d.digits, << 55 >>))

\* A decimal of 3.5 * 10^38 at least is beyond the greatest float32.
Float32Infinite(d) == d.dp >= 40 \/ (d.dp = 39 /\ ~FractionLess(d.digits, << 51, 53 >>))

\* The text of float32(v) for the decimal v stands for; the decimals that
\* are neither of the three are not computed here.
Float32String(d) ==
    IF Float32Zero(d) THEN (IF d.neg THEN << 45, 48 >> ELSE << 48 >>)
    ELSE IF Float32Infinite(d)
    THEN (IF d.neg THEN << 45, 73, 110, 102 >> ELSE << 43, 73, 110, 102 >>)
    ELSE IF Float32Exact(d) THEN FormatFloat(d)
    ELSE Beyond

\* An integer scalar as a string: strconv.FormatInt of its value. A decimal
\* integer's text is its own digits without leading zeros.
IntString(plain) ==
    IF BaseOf(Unsigned(plain)) = 10
    THEN (IF StripLeadingZeros(Unsigned(plain)) = << >> THEN << 48 >>
          ELSE (IF Negative(plain) THEN << 45 >> ELSE << >>)
                   \o StripLeadingZeros(Unsigned(plain)))
    ELSE IF ~IntInRange(plain) THEN Beyond
    ELSE (IF Negative(plain) /\ IntMagnitude(plain) # 0 THEN << 45 >> ELSE << >>)
            \o FormatInt(IntMagnitude(plain))

\* A float scalar as a string: strconv.FormatFloat(v, 'g', -1, 32).
FloatString(in) ==
    IF in \in NaNWords THEN << 78, 97, 78 >>
    ELSE IF in \in PosInfWords THEN << 43, 73, 110, 102 >>
    ELSE IF in \in NegInfWords THEN << 45, 73, 110, 102 >>
    ELSE Float32String(FloatDecimal(RemoveUnderscores(in)))

StringOf(tag, in) ==
    CASE tag = "string" -> in
      [] tag = "null" -> << >>
      [] tag = "bool" -> IF in \in TrueWords THEN << 116, 114, 117, 101 >>
                         ELSE << 102, 97, 108, 115, 101 >>
      [] tag = "int" -> IntString(IntText(RemoveUnderscores(in)))
      [] tag = "float" -> FloatString(in)

\* A scalar decoded into a Go string field: a string as it is; an integer, a
\* float and a boolean converted to their texts; null leaves the field empty.
StringField(sc) == StringOf(Resolve(sc), sc.text)

\* An integer scalar as a uint; -1 stands for an error, -2 for a uint that is
\* decoded but not held as a number here (10^9 or more; in the other bases,
\* one of more digits than FitsBase counts).
IntUint(plain) ==
    IF Negative(plain) /\ StripLeadingZeros(BaseDigits(Unsigned(plain))) # << >> THEN -1
    ELSE IF ~IntInRange(plain) THEN -2
    ELSE IntMagnitude(plain)

\* Half of the fraction 0.ds: a digit is half of itself and of the ten its
\* odd neighbour in front leaves.
Halve(ds) ==
    [i \in 1..(Len(ds) + 1) |-> 48 + ((10 * (ValueAt(ds, i - 1) % 2) + ValueAt(ds, i)) \div 2)]

\* The digits of 2^-k behind the point, k being 1 at least: halved from
\* 2^-1, 2^-18, 2^-36 or 2^-54.
RECURSIVE HalfPower(_)
HalfPower(k) ==
    CASE k = 1 -> << 53 >>
      [] k = 18 -> << 48, 48, 48, 48, 48, 51, 56, 49, 52, 54, 57, 55, 50, 54, 53, 54, 50, 53 >>
      [] k = 36 -> << 48, 48, 48, 48, 48, 48, 48, 48, 48, 48, 49, 52, 53, 53, 49, 57, 49, 53,
               50, 50, 56, 51, 54, 54, 56, 53, 49, 56, 48, 54, 54, 52, 48, 54, 50, 53 >>
      [] k = 54 -> << 48, 48, 48, 48, 48, 48, 48, 48, 48, 48, 48, 48, 48, 48, 48, 48, 53, 53,
               53, 49, 49, 49, 53, 49, 50, 51, 49, 50, 53, 55, 56, 50, 55, 48, 50, 49,
               49, 56, 49, 53, 56, 51, 52, 48, 52, 53, 52, 49, 48, 49, 53, 54, 50, 53 >>
      [] OTHER -> Halve(HalfPower(k - 1))

\* Twice the number ds: a digit is doubled and takes the one its neighbour
\* behind carries.
Double(ds) ==
    (IF ValueAt(ds, 1) >= 5 THEN << 49 >> ELSE << >>)
        \o [i \in 1..Len(ds) |->
               48 + ((2 * ValueAt(ds, i) + (IF ValueAt(ds, i + 1) >= 5 THEN 1 ELSE 0)) % 10)]

\* The digits of 2^e: doubled from 1, 2^16, 2^32 or 2^48.
RECURSIVE PowerOfTwo(_)
PowerOfTwo(e) ==
    CASE e = 0 -> << 49 >>
      [] e = 16 -> << 54, 53, 53, 51, 54 >>
      [] e = 32 -> << 52, 50, 57, 52, 57, 54, 55, 50, 57, 54 >>
      [] e = 48 -> << 50, 56, 49, 52, 55, 52, 57, 55, 54, 55, 49, 48, 54, 53, 54 >>
      [] OTHER -> Double(PowerOfTwo(e - 1))

\* The exponent of the greatest power of two up to a number that is at least
\* 1 and below 2^52.
Log2Floor(n) ==
    CHOOSE e \in 0..51 :
        MagnitudeLeq(PowerOfTwo(e), n) /\ ~MagnitudeLeq(PowerOfTwo(e + 1), n)

\* The digits of 2^-1075 behind 323 zeros: half of the least float64.
Float64Least ==
    << 50, 52, 55, 48, 51, 50, 56, 50, 50, 57, 50, 48, 54, 50, 51, 50, 55, 50, 48, 56,
       56, 50, 56, 52, 51, 57, 54, 52, 51, 52, 49, 49, 48, 54, 56, 54, 49, 56, 50, 53,
       50, 57, 57, 48, 49, 51, 48, 55, 49, 54, 50, 51, 56, 50, 50, 49, 50, 55, 57, 50,
       56, 52, 49, 50, 53, 48, 51, 51, 55, 55, 53, 51, 54, 51, 53, 49, 48, 52, 51, 55,
       53, 57, 51, 50, 54, 52, 57, 57, 49, 56, 49, 56, 48, 56, 49, 55, 57, 57, 54, 49,
       56, 57, 56, 57, 56, 50, 56, 50, 51, 52, 55, 55, 50, 50, 56, 53, 56, 56, 54, 53,
       52, 54, 51, 51, 50, 56, 51, 53, 53, 49, 55, 55, 57, 54, 57, 56, 57, 56, 49, 57,
       57, 51, 56, 55, 51, 57, 56, 48, 48, 53, 51, 57, 48, 57, 51, 57, 48, 54, 51, 49,
       53, 48, 51, 53, 54, 53, 57, 53, 49, 53, 53, 55, 48, 50, 50, 54, 51, 57, 50, 50,
       57, 48, 56, 53, 56, 51, 57, 50, 52, 52, 57, 49, 48, 53, 49, 56, 52, 52, 51, 53,
       57, 51, 49, 56, 48, 50, 56, 52, 57, 57, 51, 54, 53, 51, 54, 49, 53, 50, 53, 48,
       48, 51, 49, 57, 51, 55, 48, 52, 53, 55, 54, 55, 56, 50, 52, 57, 50, 49, 57, 51,
       54, 53, 54, 50, 51, 54, 54, 57, 56, 54, 51, 54, 53, 56, 52, 56, 48, 55, 53, 55,
       48, 48, 49, 53, 56, 53, 55, 54, 57, 50, 54, 57, 57, 48, 51, 55, 48, 54, 51, 49,
       49, 57, 50, 56, 50, 55, 57, 53, 53, 56, 53, 53, 49, 51, 51, 50, 57, 50, 55, 56,
       51, 52, 51, 51, 56, 52, 48, 57, 51, 53, 49, 57, 55, 56, 48, 49, 53, 53, 51, 49,
       50, 52, 54, 53, 57, 55, 50, 54, 51, 53, 55, 57, 53, 55, 52, 54, 50, 50, 55, 54,
       54, 52, 54, 53, 50, 55, 50, 56, 50, 55, 50, 50, 48, 48, 53, 54, 51, 55, 52, 48,
       48, 54, 52, 56, 53, 52, 57, 57, 57, 55, 55, 48, 57, 54, 53, 57, 57, 52, 55, 48,
       52, 53, 52, 48, 50, 48, 56, 50, 56, 49, 54, 54, 50, 50, 54, 50, 51, 55, 56, 53,
       55, 51, 57, 51, 52, 53, 48, 55, 51, 54, 51, 51, 57, 48, 48, 55, 57, 54, 55, 55,
       54, 49, 57, 51, 48, 53, 55, 55, 53, 48, 54, 55, 52, 48, 49, 55, 54, 51, 50, 52,
       54, 55, 51, 54, 48, 48, 57, 54, 56, 57, 53, 49, 51, 52, 48, 53, 51, 53, 53, 51,
       55, 52, 53, 56, 53, 49, 54, 54, 54, 49, 49, 51, 52, 50, 50, 51, 55, 54, 54, 54,
       55, 56, 54, 48, 52, 49, 54, 50, 49, 53, 57, 54, 56, 48, 52, 54, 49, 57, 49, 52,
       52, 54, 55, 50, 57, 49, 56, 52, 48, 51, 48, 48, 53, 51, 48, 48, 53, 55, 53, 51,
       48, 56, 52, 57, 48, 52, 56, 55, 54, 53, 51, 57, 49, 55, 49, 49, 51, 56, 54, 53,
       57, 49, 54, 52, 54, 50, 51, 57, 53, 50, 52, 57, 49, 50, 54, 50, 51, 54, 53, 51,
       56, 56, 49, 56, 55, 57, 54, 51, 54, 50, 51, 57, 51, 55, 51, 50, 56, 48, 52, 50,
       51, 56, 57, 49, 48, 49, 56, 54, 55, 50, 51, 52, 56, 52, 57, 55, 54, 54, 56, 50,
       51, 53, 48, 56, 57, 56, 54, 51, 51, 56, 56, 53, 56, 55, 57, 50, 53, 54, 50, 56,
       51, 48, 50, 55, 53, 53, 57, 57, 53, 54, 53, 55, 53, 50, 52, 52, 53, 53, 53, 48,
       55, 50, 53, 53, 49, 56, 57, 51, 49, 51, 54, 57, 48, 56, 51, 54, 50, 53, 52, 55,
       55, 57, 49, 56, 54, 57, 52, 56, 54, 54, 55, 57, 57, 52, 57, 54, 56, 51, 50, 52,
       48, 52, 57, 55, 48, 53, 56, 50, 49, 48, 50, 56, 53, 49, 51, 49, 56, 53, 52, 53,
       49, 51, 57, 54, 50, 49, 51, 56, 51, 55, 55, 50, 50, 56, 50, 54, 49, 52, 53, 52,
       51, 55, 54, 57, 51, 52, 49, 50, 53, 51, 50, 48, 57, 56, 53, 57, 49, 51, 50, 55,
       54, 54, 55, 50, 51, 54, 51, 50, 56, 49, 50, 53 >>

\* Whether the float64 nearest to a positive decimal is zero: the decimal is
\* 2^-1075 at most (the tie goes to the even neighbour, zero).
Float64Zero(d) ==
    d.dp < -323 \/ (d.dp = -323 /\ ~FractionLess(Float64Least, d.digits))

\* 1 - 0.ds for digits that do not end in a zero.
Complement(ds) == [k \in 1..Len(ds) |-> IF k = Len(ds) THEN 106 - ds[k] ELSE 105 - ds[k]]

\* The digits of a decimal in front of its point and behind it, for a
\* decimal of 1 at least.
IntegerDigits(d) == [k \in 1..d.dp |-> DigitAt(d.digits, k)]
FractionDigits(d) == SubSeq(d.digits, d.dp + 1, Len(d.digits))

\* 2^64 - 1024: from here on a decimal rounds to the float64 2^64 or beyond,
\* which json.Marshal writes as a number above the greatest uint64.
Float64BeyondUint ==
    << 49, 56, 52, 52, 54, 55, 52, 52, 48, 55, 51, 55, 48, 57, 53, 53, 48, 53, 57, 50 >>

\* A whole number, or the next one, as the result: itself below 10^9.
UintOfDigits(n, plus) ==
    IF Len(n) > 9 \/ ParseBase(n, 10) + plus > 999999999 THEN -2
    ELSE ParseBase(n, 10) + plus

\* The float64 nearest to n + 0.frac, n being at least 1 and below 2^52 and
\* the fraction more than 0: within 2^(e-53) of a whole number it is that
\* number, e being the exponent of n's power of two (between 2^e and 2^(e+1)
\* the float64s lie 2^(e-52) apart, and a tie goes to the whole number, whose
\* last bit is 0); otherwise it has a fraction and does not read as a uint.
NearWhole(n, frac, half) ==
    IF ~FractionLess(half, frac) THEN UintOfDigits(n, 0)
    ELSE IF ~FractionLess(half, Complement(frac)) THEN UintOfDigits(n, 1)
    ELSE -1

\* A decimal of 1 at least and below 10^20 as a uint.
WholeUint(n, frac) ==
    IF Len(n) = 20 /\ ~FractionLess(n, Float64BeyondUint) THEN -1
    ELSE IF frac = << >> THEN UintOfDigits(n, 0)
    ELSE IF MagnitudeLeq(PowerOfTwo(52), n) THEN -2
    ELSE NearWhole(n, frac, HalfPower(53 - Log2Floor(n)))

\* A float as a uint: the decoder passes the float64 on as a JSON number,
\* which must read as a uint64 (strconv.ParseUint of its text). json.Marshal
\* writes a float64 with its shortest digits, with an exponent below 10^-6
\* and from 10^21 on. So a negative number (and -0), a number with a fraction
\* and a number of 2^64 or more are errors, and the float64 is the one
\* nearest to the decimal: 0 for a decimal up to 2^-1075, 1 for a decimal
\* from 1 - 2^-54 on.
DecimalUint(d) ==
    IF d.neg THEN -1
    ELSE IF d.digits = << >> THEN 0
    ELSE IF Float64Zero(d) THEN 0
    ELSE IF d.dp < 0 THEN -1
    ELSE IF d.dp = 0
         THEN (IF ~FractionLess(HalfPower(54), Complement(d.digits)) THEN 1 ELSE -1)
    ELSE IF d.dp >= 21 THEN -1
    ELSE WholeUint(IntegerDigits(d), FractionDigits(d))

FloatUint(in) ==
    IF in \in NaNWords \cup PosInfWords \cup NegInfWords THEN -1
    ELSE DecimalUint(FloatDecimal(RemoveUnderscores(in)))

UintOf(tag, in) ==
    CASE tag = "null" -> 0
      [] tag = "int" -> IntUint(IntText(RemoveUnderscores(in)))
      [] tag = "float" -> FloatUint(in)
      [] OTHER -> -1

\* A scalar decoded into a Go uint field: null leaves 0; an integer or a float
\* must be a whole number that is not negative; anything else is an error.
UintField(sc) == UintOf(Resolve(sc), sc.text)

\* strings.SplitN(s, ".", 3) of semver.Parse: the third part keeps its dots.
RECURSIVE SplitDots(_, _, _)
SplitDots(s, cur, n) ==
    IF n = 1 THEN << cur \o s >>
    ELSE IF s = << >> THEN << cur >>
    ELSE IF Head(s) = 46 THEN << cur >> \o SplitDots(Tail(s), << >>, n - 1)
    ELSE SplitDots(Tail(s), Append(cur, Head(s)), n)

\* strings.Split(s, "."), every part.
SplitAllDots(s) == SplitByte(s, << >>, 46)

\* semver's checks of a numeric part: digits only, no leading zero, and
\* strconv.ParseUint(s, 10, 64) refuses the empty string and a number beyond
\* 64 bits.
NumericPart(s) == AllDigits(s) /\ ~(Len(s) > 1 /\ s[1] = 48) /\ FitsUint64(s, 10)

\* strconv.ParseUint(s, 10, 64) on decimal digits it accepts; -2 stands for
\* a number that is not computed here.
ParseUint(s) == IF Len(StripLeadingZeros(s)) > 9 THEN -2 ELSE ParseBase(s, 10)

\* semver's alphanum: letters, digits and the hyphen.
Alphanum(s) ==
    \A k \in 1..Len(s) : s[k] \in (48..57) \cup (65..90) \cup (97..122) \cup {45}

\* NewPRVersion accepts an identifier that is a number without a leading zero
\* or is alphanumeric; a build identifier is not empty and alphanumeric.
PRVersionOk(s) == s # << >> /\ (IF AllDigits(s) THEN NumericPart(s) ELSE Alphanum(s))
BuildOk(s) == s # << >> /\ Alphanum(s)

\* semver.Parse of the version text: << major, minor, patch >>, followed by
\* the prerelease and build texts when the version has one of them; << >>
\* stands for an error.
SemverParse(s) ==
    LET parts == SplitDots(s, << >>, 3)
        p3 == parts[3]
        bi == IndexRune(p3, 43)
        build == IF bi = 0 THEN << >> ELSE SubSeq(p3, bi + 1, Len(p3))
        p3b == IF bi = 0 THEN p3 ELSE SubSeq(p3, 1, bi - 1)
        pi == IndexRune(p3b, 45)
        pre == IF pi = 0 THEN << >> ELSE SubSeq(p3b, pi + 1, Len(p3b))
        patch == IF pi = 0 THEN p3b ELSE SubSeq(p3b, 1, pi - 1)
        pres == IF pi = 0 THEN << >> ELSE SplitAllDots(pre)
        builds == IF bi = 0 THEN << >> ELSE SplitAllDots(build)
    IN IF Len(parts) # 3 THEN << >>
       ELSE IF /\ NumericPart(parts[1])
               /\ NumericPart(parts[2])
               /\ NumericPart(patch)
               /\ \A k \in 1..Len(pres) : PRVersionOk(pres[k])
               /\ \A k \in 1..Len(builds) : BuildOk(builds[k])
       THEN << ParseUint(parts[1]), ParseUint(parts[2]), ParseUint(patch) >>
                \o (IF pi = 0 /\ bi = 0 THEN << >> ELSE << pre, build >>)
       ELSE << >>

NoMetadata == [package |-> << >>, version |-> << >>, release |-> 0]

\* DecodeBundleMetadata: YAMLDecode into a BundleMetadata. The package field
\* is a string, and the decoder turns a number or a boolean into its text for
\* it; the version must be a string, which semver's UnmarshalJSON parses; the
\* release must decode into a uint. The decoder reads the document with the
\* YAML library first, which refuses a byte its reader does not take.
\* NoMetadata stands for an error.
Decoded(doc, version, release) ==
    IF Resolve(doc.version) = "string" /\ version # << >> /\ release # -1
    THEN [package |-> StringField(doc.package), version |-> version, release |-> release]
    ELSE NoMetadata

DecodeBundleMetadata(doc) ==
    IF doc.readable
    THEN Decoded(doc, SemverParse(doc.version.text), UintField(doc.release))
    ELSE NoMetadata

InitTrip ==
    /\ tver \in PkgVersions
    /\ tmeta \in BundleMetadata
    /\ tblob = << >>
    /\ tpc = "new"
    /\ treport = NoMetadata

\* The build pushes the metadata blob: the bytes of Data() under MediaType()
\* (Bundle.Blobs, main.go 910-922; pushed by the Builder as any blob). When
\* Data() returns an error the build fails and nothing is pushed.
TripBuild ==
    /\ tpc = "new"
    /\ IF DataFails(tver, tmeta)
       THEN tblob' = tblob /\ tpc' = "failed"
       ELSE /\ tblob' = [mediaType |-> BundleMetadataMediaType(tver), doc |-> Data(tver, tmeta)]
            /\ tpc' = "built"
    /\ UNCHANGED << tver, tmeta, treport >>
    /\ UNCHANGED idleInTrip

\* inspect reaches the metadata blob under the built root: the case of its
\* media type decodes it and prints package, version and release.
TripInspect ==
    /\ tpc = "built"
    /\ treport' = IF tblob.mediaType = BundleMetadataMediaType(tver)
                  THEN DecodeBundleMetadata(tblob.doc)
                  ELSE NoMetadata
    /\ tpc' = "inspected"
    /\ UNCHANGED << tver, tmeta, tblob >>
    /\ UNCHANGED idleInTrip

NextTrip ==
    \/ TripBuild
    \/ TripInspect

TripIdle ==
    /\ tver = "api/v1"
    /\ tmeta = NoMetadata
    /\ tblob = << >>
    /\ tpc = "inspected"
    /\ treport = NoMetadata

\* ---------------------------------------------------------------------------
\* The digest of a flattened bundle: Bundle.ensureDigest and Package.ToFBC
\* (src/cmd/createcatalog/main.go 1156-1172, 1100-1138; Bundle.getDigest of
\* src/internal/pkg/pkg.go 739-746). The digest is the one client.Push
\* returns for the bundle on a new memory store; later the same bundle is
\* pushed to the real target.
\* ---------------------------------------------------------------------------

\* Push takes the bundle as it takes any Artifact; a Bundle is a tree of one
\* node (Bundle.SubArtifacts returns nil).
IsBundle(t) == t.n = 1

\* The Digest field of a sparse bundle, one fetched without its content
\* (Content.FS is nil): empty, or the digest the bundle was fetched by.
SparseDigests == {NoDesc.digest, Marshal(1, << >>)}

\* ensureDigest at its head. For a bundle with content it calls
\* client.Push(ctx, b, memory.New()): the build starts with an empty target of
\* its own. A sparse bundle is not built: what ensureDigest does for it is
\* the step EnsureDigestSparse.
InitDry ==
    \/ /\ \E t \in Trees : BuildStart(t)
       /\ target = {}
       /\ targetOps = 0
       /\ prevRoot = NoDesc
       /\ dphase = "dry"
       /\ embedded = NoDesc.digest
       /\ durable = {}
    \/ /\ BuilderIdle
       /\ dphase = "sparse"
       /\ embedded \in SparseDigests
       /\ durable = {}

\* ensureDigest of a sparse bundle (main.go 1157-1163): with a Digest it
\* returns at once, no store is made and nothing is pushed, and ToFBC writes
\* that Digest into the image reference; without one it returns the error
\* "cannot compute digest for sparse bundle".
EnsureDigestSparse ==
    /\ dphase = "sparse"
    /\ dphase' = IF embedded # NoDesc.digest THEN "trusted" ELSE "failed"
    /\ UNCHANGED << embedded, durable >>
    /\ UNCHANGED bvars
    /\ UNCHANGED idleInDry

\* ensureDigest keeps desc.Digest, ToFBC writes it into the image reference,
\* and the bundle is then pushed to the real target by a new call of Push.
RealPush ==
    /\ dphase = "dry"
    /\ phase = "done"
    /\ result.err = "nil"
    /\ embedded' = result.desc.digest
    /\ dphase' = "real"
    /\ target' = durable
    /\ durable' = durable
    /\ targetOps' = 0
    /\ tree' = tree
    /\ phase' = "stage"
    /\ npc' = [n \in Nodes |-> IF n = Root THEN "ready" ELSE "idle"]
    /\ bpc' = [b \in BlobSlots |-> "idle"]
    /\ gerr' = [n \in Nodes |-> Nil]
    /\ gcancel' = [n \in Nodes |-> FALSE]
    /\ callerCancelled' = FALSE
    /\ descChan' = [n \in Nodes |-> <<>>]
    /\ ndesc' = [n \in Nodes |-> NoDesc]
    /\ store' = {}
    /\ stageErr' = Nil
    /\ result' = [desc |-> NoDesc, err |-> "pending"]
    /\ faults' = 0
    /\ UNCHANGED << cpc, prevRoot >>
    /\ UNCHANGED idleInDry

DryIdle ==
    /\ dphase = "off"
    /\ embedded = NoDesc.digest
    /\ durable = {}

NextDry ==
    \/ NextBuild
    \/ RealPush
    \/ EnsureDigestSparse

\* ---------------------------------------------------------------------------
\* One node from authoring to inspection: push collects the descriptors of
\* the declared children from descChan, sorts and marshals them (client.go
\* 144-171); inspect decodes the manifest and ranges over its Blobs
\* (part_006 44-56).
\* ---------------------------------------------------------------------------

\* The children a node may declare: a sub-artifact and three blobs.
DeclaredDescs ==
    { NewDescriptorFromBytes(MediaTypeArtifactManifest, Marshal(1, << >>)),
      NewDescriptorFromBytes(MediaTypeBundleMetadata, <<3>>),
      NewDescriptorFromBytes(MediaTypeProperties, <<2>>),
      NewDescriptorFromBytes(MediaTypeConstraints, <<4>>) }

\* artifact.SubIndices() followed by artifact.Blobs(): sub-artifacts first (push
\* hands them to pushSubIndices before pushBlobs), no child declared twice.
Declarable ==
    { s \in UNION { [1..k -> DeclaredDescs] : k \in 1..MaxChildren } :
        /\ \A i, j \in 1..Len(s) : i # j => s[i] # s[j]
        /\ \A i, j \in 1..Len(s) :
              (i < j /\ s[j].mediaType = MediaTypeArtifactManifest)
                  => s[i].mediaType = MediaTypeArtifactManifest }

InitWalk ==
    /\ wdeclared \in Declarable
    /\ wchan = << >>
    /\ wmanifest = << >>
    /\ wvisited = << >>
    /\ wpc = "stage"

\* A task of the node's group sends its descriptor (client.go 67-72, 95-100).
WalkSend ==
    /\ wpc = "stage"
    /\ \E d \in Range(wdeclared) \ Range(wchan) : wchan' = Append(wchan, d)
    /\ UNCHANGED << wdeclared, wmanifest, wvisited, wpc >>
    /\ UNCHANGED idleInWalk

\* push: every task returned; drain, sort, marshal (client.go 152-171).
WalkPush ==
    /\ wpc = "stage"
    /\ Len(wchan) = Len(wdeclared)
    /\ wmanifest' = Marshal(1, SortSliceByDigest(wchan))
    /\ wpc' = "pushed"
    /\ UNCHANGED << wdeclared, wchan, wvisited >>
    /\ UNCHANGED idleInWalk

\* inspect: "for _, blob := range a.Blobs" of the decoded manifest, one call
\* per step (part_006 45-56).
WalkVisit ==
    /\ wpc = "pushed"
    /\ LET blobs == UnmarshalArtifactBlobs(wmanifest)
       IN  IF Len(wvisited) < Len(blobs)
           THEN /\ wvisited' = Append(wvisited, blobs[Len(wvisited) + 1])
                /\ wpc' = wpc
           ELSE /\ wpc' = "inspected"
                /\ wvisited' = wvisited
    /\ UNCHANGED << wdeclared, wchan, wmanifest >>
    /\ UNCHANGED idleInWalk

NextWalk ==
    \/ WalkSend
    \/ WalkPush
    \/ WalkVisit

WalkIdle ==
    /\ wdeclared = << >>
    /\ wchan = << >>
    /\ wmanifest = << >>
    /\ wvisited = << >>
    /\ wpc = "inspected"

\* ---------------------------------------------------------------------------
\* The push commands: runPushPackage (src/unnamed/part_002 56-77) calls
\* client.Push and then repo.Tag; runPushArchive (push_archive.go 75-121) and
\* createcatalog's run (main.go 101-108) copy the graph and then Tag in the
\* same way.
\* ---------------------------------------------------------------------------
InitTag ==
    /\ \E t \in Trees : BuildStart(t)
    /\ target = {}
    /\ targetOps = 0
    /\ prevRoot = NoDesc
    /\ tagged = NoDesc
    /\ cmdErr = "pending"

\* A command that tags the root as soon as it is staged.
TagPackageEarly ==
    /\ cmdErr = "pending"
    /\ phase \in {"copy", "done"}
    /\ \/ tagged' = ndesc[Root] /\ cmdErr' = "nil"
       \/ tagged' = tagged /\ cmdErr' = "tag package"
    /\ UNCHANGED bvars
    /\ UNCHANGED idleInTag

\* part_002 70-72: Push returned nil; repo.Tag(ctx, desc, ref) writes the tag
\* or fails.
TagPackage ==
    /\ cmdErr = "pending"
    /\ phase = "done"
    /\ result.err = "nil"
    /\ \/ tagged' = result.desc /\ cmdErr' = "nil"
       \/ tagged' = tagged /\ cmdErr' = "tag package"
    /\ UNCHANGED bvars
    /\ UNCHANGED idleInTag

\* part_002 66-69: Push returned an error and the command returns it.
PushPackageFails ==
    /\ cmdErr = "pending"
    /\ phase = "failed"
    /\ cmdErr' = "push package"
    /\ tagged' = tagged
    /\ UNCHANGED bvars
    /\ UNCHANGED idleInTag

NextTag ==
    \/ NextBuild
    \/ TagPackage
    \/ PushPackageFails

TagIdle ==
    /\ tagged = NoDesc
    /\ cmdErr = "nil"

\* ---------------------------------------------------------------------------
\* CopyGraphWithProgress (client.go 105-142): the copy's callbacks write
\* progress messages to the write end of an io.Pipe (a Write returns when a
\* Read has taken the bytes or the read end is closed; nothing closes the
\* read end), and a goroutine runs DisplayJSONMessagesStream on the read end
\* and sends what it returns on errChan.
\* ---------------------------------------------------------------------------
InitProgress ==
    /\ qleft \in 0..MaxMessages
    /\ qwriting = 0
    /\ qcopy = "running"
    /\ qclosed = FALSE
    /\ qdisp = "reading"
    /\ qshown = 0
    /\ qret = "running"

\* A callback of one of the copy's workers (OnCopySkipped, PostCopy, the
\* progress store) calls out.WriteProgress, which writes to pw (client.go
\* 111, 117-131).
ProgressWrite ==
    /\ qcopy = "running"
    /\ qleft > 0
    /\ qwriting < MaxWriters
    /\ qleft' = qleft - 1
    /\ qwriting' = qwriting + 1
    /\ UNCHANGED << qcopy, qclosed, qdisp, qshown, qret >>
    /\ UNCHANGED idleInProgress

\* The display goroutine reads a message; that Write returns. Displaying it
\* succeeds, or fails and DisplayJSONMessagesStream returns the error, which
\* the goroutine sends on errChan (client.go 113-115).
DisplayRead ==
    /\ qdisp = "reading" /\ qwriting > 0
    /\ qwriting' = qwriting - 1
    /\ \/ qdisp' = "reading" /\ qshown' = qshown + 1
       \/ qdisp' = "err" /\ qshown' = qshown
    /\ UNCHANGED << qleft, qcopy, qclosed, qret >>
    /\ UNCHANGED idleInProgress

\* oras.CopyGraph returns nil: every message is written (client.go 132).
CopyGraphReturnsNil ==
    /\ qcopy = "running" /\ qwriting = 0
    /\ qleft = 0
    /\ qcopy' = "nil"
    /\ UNCHANGED << qleft, qwriting, qclosed, qdisp, qshown, qret >>
    /\ UNCHANGED idleInProgress

\* oras.CopyGraph returns an error and CopyGraphWithProgress returns "copy
\* artifact graph: ..." at once (client.go 132-134).
CopyGraphReturnsErr ==
    /\ qcopy = "running" /\ qwriting = 0
    /\ qcopy' = "err"
    /\ qret' = "copy artifact graph"
    /\ UNCHANGED << qleft, qwriting, qclosed, qdisp, qshown >>
    /\ UNCHANGED idleInProgress

\* pw.Close() (client.go 135-137; a PipeWriter's Close returns nil).
ProgressClose ==
    /\ qcopy = "nil" /\ ~qclosed
    /\ qclosed' = TRUE
    /\ UNCHANGED << qleft, qwriting, qcopy, qdisp, qshown, qret >>
    /\ UNCHANGED idleInProgress

\* The display goroutine reads EOF from the closed pipe;
\* DisplayJSONMessagesStream returns nil and the goroutine sends it.
DisplayEOF ==
    /\ qdisp = "reading" /\ qclosed
    /\ qdisp' = "nil"
    /\ UNCHANGED << qleft, qwriting, qcopy, qclosed, qshown, qret >>
    /\ UNCHANGED idleInProgress

\* "err := <-errChan" and the return (client.go 138-141).
ProgressReturn ==
    /\ qret = "running" /\ qclosed
    /\ qdisp # "reading"
    /\ qret' = IF qdisp = "nil" THEN "nil" ELSE "display progress"
    /\ UNCHANGED << qleft, qwriting, qcopy, qclosed, qdisp, qshown >>
    /\ UNCHANGED idleInProgress

NextProgress ==
    \/ ProgressWrite
    \/ DisplayRead
    \/ CopyGraphReturnsNil
    \/ CopyGraphReturnsErr
    \/ ProgressClose
    \/ DisplayEOF
    \/ ProgressReturn

ProgressIdle ==
    /\ qleft = 0
    /\ qwriting = 0
    /\ qcopy = "nil"
    /\ qclosed = TRUE
    /\ qdisp = "nil"
    /\ qshown = 0
    /\ qret = "nil"

\* ---------------------------------------------------------------------------
\* Package.ToFBC (cmd/createcatalog/main.go 1040-1154): the declarative
\* projection of a package: one flattened channel per channel, and one bundle
\* per full version.
\* ---------------------------------------------------------------------------

\* The bundles a package's channels draw from.
FbcReleases == {[version |-> 1, release |-> 0], [version |-> 1, release |-> 1],
                [version |-> 2, release |-> 0]}

\* A set of strings as a list in descending byte order, the order
\* loadUpgradeEdges leaves a target list in (main.go 419).
RECURSIVE DescendingStrings(_)
DescendingStrings(S) ==
    IF S = {} THEN << >>
    ELSE LET m == CHOOSE x \in S : \A y \in S \ {x} : StringLess(y, x)
         IN << m >> \o DescendingStrings(S \ {m})

\* A set of bundles as a list in ascending order of full version.
RECURSIVE BundleList(_)
BundleList(S) ==
    IF S = {} THEN << >>
    ELSE LET m == CHOOSE x \in S :
                    \A y \in S \ {x} : StringLess(fullVersion(x), fullVersion(y))
         IN << m >> \o BundleList(S \ {m})

\* Whether release a comes before release b.
Earlier(a, b) ==
    a.version < b.version \/ (a.version = b.version /\ a.release < b.release)

\* The upgrade edges a package carries: for some of its releases, a list of
\* later releases (possibly empty), keyed and listed by full version.
FbcEdgeMaps ==
    UNION {{[k \in {fullVersion(b) : b \in ks} |->
                LET b == CHOOSE x \in ks : fullVersion(x) = k
                IN DescendingStrings({fullVersion(t) : t \in tg[b]})] :
            tg \in {g \in [ks -> SUBSET FbcReleases] :
                        \A b \in ks : \A t \in g[b] : Earlier(b, t)}} :
           ks \in SUBSET FbcReleases}

FbcChannelLists ==
    UNION {[1..n -> {BundleList(bs) : bs \in (SUBSET FbcReleases) \ {{}}}] :
           n \in 1..MaxChannels}

\* bundleName: fmt.Sprintf("%s.v%s", p.Metadata.Name, fullVersion(b)), for the
\* package named "p" ('p' is 112, '.' is 46, 'v' is 118).
bundleName(b) == << 112, 46, 118 >> \o fullVersion(b)

\* lookup[to] of the channel (main.go 1064-1069): the last bundle of the
\* channel with that full version.
Lookup(ch, k) ==
    ch[CHOOSE j \in 1..Len(ch) :
          /\ fullVersion(ch[j]) = k
          /\ \A l \in (j + 1)..Len(ch) : fullVersion(ch[l]) # k]

InChannel(ch) == {fullVersion(ch[j]) : j \in 1..Len(ch)}

\* The entries one bundle of the channel contributes (main.go 1072-1090).
RECURSIVE EntriesTo(_, _, _)
EntriesTo(ch, from, tos) ==
    IF tos = << >> THEN << >>
    ELSE (IF Head(tos) \notin InChannel(ch) THEN << >>
          ELSE << [Name |-> bundleName(Lookup(ch, Head(tos))),
                   Replaces |-> bundleName(Lookup(ch, from))] >>)
         \o EntriesTo(ch, from, Tail(tos))

EntriesOf(ch, edges, b) ==
    IF DOMAIN edges = {} THEN << [Name |-> bundleName(b), Replaces |-> << >>] >>
    ELSE LET from == fullVersion(b)
             tos == IF from \in DOMAIN edges THEN edges[from] ELSE << >>
         IN EntriesTo(ch, from, tos)

\* The channel's Entries (main.go 1071-1091).
RECURSIVE ChannelEntries(_, _, _)
ChannelEntries(ch, edges, j) ==
    IF j > Len(ch) THEN << >>
    ELSE EntriesOf(ch, edges, ch[j]) \o ChannelEntries(ch, edges, j + 1)

\* bundleMap after the channel's bundles are stored (main.go 1100-1137).
BundleMapWith(m, ch) ==
    [k \in DOMAIN m \cup InChannel(ch) |->
        IF k \in InChannel(ch) THEN bundleName(Lookup(ch, k)) ELSE m[k]]

InitFbc ==
    /\ fchs \in FbcChannelLists
    /\ fedges \in FbcEdgeMaps
    /\ fi = 0
    /\ fchannels = << >>
    /\ fbundleMap = << >>
    /\ fbundles = << >>
    /\ fret = "running"

\* One round of the loop over p.Channels (main.go 1062-1138).
FlattenChannel ==
    /\ fret = "running"
    /\ fi < Len(fchs)
    /\ fi' = fi + 1
    /\ fchannels' = Append(fchannels, ChannelEntries(fchs[fi + 1], fedges, 1))
    /\ fbundleMap' = BundleMapWith(fbundleMap, fchs[fi + 1])
    /\ UNCHANGED << fchs, fedges, fbundles, fret >>
    /\ UNCHANGED idleInFbc

\* ensureDigest fails for a bundle of the channel: ToFBC returns nil and the
\* error (main.go 1101-1103).
EnsureDigestFails ==
    /\ fret = "running"
    /\ fi < Len(fchs)
    /\ fret' = "err"
    /\ fchannels' = << >>
    /\ fbundleMap' = << >>
    /\ UNCHANGED << fchs, fedges, fi, fbundles >>
    /\ UNCHANGED idleInFbc

\* The bundles of bundleMap sorted by name, and the return (main.go 1140-1153).
FbcReturn ==
    /\ fret = "running"
    /\ fi = Len(fchs)
    /\ fbundles' = LET names == {fbundleMap[k] : k \in DOMAIN fbundleMap}
                       desc == DescendingStrings(names)
                   IN [j \in 1..Len(desc) |-> desc[Len(desc) + 1 - j]]
    /\ fret' = "ok"
    /\ UNCHANGED << fchs, fedges, fi, fchannels, fbundleMap >>
    /\ UNCHANGED idleInFbc

NextFbc == FlattenChannel \/ EnsureDigestFails \/ FbcReturn

FbcIdle ==
    /\ fchs = << >>
    /\ fedges = << >>
    /\ fi = 0
    /\ fchannels = << >>
    /\ fbundleMap = << >>
    /\ fbundles = << >>
    /\ fret = "running"

vars == << bvars, cvars, rvars, pvars, ivars, evars, tvars, dvars, wvars, gvars, qvars, fvars >>

\* The Copier at rest while a build runs.
CopierIdle ==
    /\ cver = "copy.go" /\ croot = 1 /\ ctagged = FALSE /\ crefPusher = FALSE
    /\ dest0 = {} /\ dest = {} /\ destTag = 0 /\ cstack = <<>> /\ cdone = FALSE
    /\ cres = [bytes |-> 0, err |-> CNil] /\ fetchLog = <<>> /\ pushLog = <<>>
    /\ callLog = <<>> /\ cfault = FALSE /\ attempt = 1 /\ prevBytes = 0
    /\ landed = {} /\ unrecChain = {}

\* A build, a copy and the racing operations each start with the rest idle.
Init ==
    InitBuild /\ CopierIdle /\ RaceIdle /\ PoolIdle /\ InspectIdle /\ EdgesIdle /\ TripIdle /\ DryIdle /\ WalkIdle /\ TagIdle /\ ProgressIdle /\ FbcIdle
InitCopier ==
    InitCopy /\ BuilderIdle /\ RaceIdle /\ PoolIdle /\ InspectIdle /\ EdgesIdle /\ TripIdle /\ DryIdle /\ WalkIdle /\ TagIdle /\ ProgressIdle /\ FbcIdle
InitRacers ==
    InitRace /\ BuilderIdle /\ CopierIdle /\ PoolIdle /\ InspectIdle /\ EdgesIdle /\ TripIdle /\ DryIdle /\ WalkIdle /\ TagIdle /\ ProgressIdle /\ FbcIdle
InitTasks ==
    InitPool /\ BuilderIdle /\ CopierIdle /\ RaceIdle /\ InspectIdle /\ EdgesIdle /\ TripIdle /\ DryIdle /\ WalkIdle /\ TagIdle /\ ProgressIdle /\ FbcIdle
InitInspector ==
    InitInspect /\ BuilderIdle /\ CopierIdle /\ RaceIdle /\ PoolIdle /\ EdgesIdle /\ TripIdle /\ DryIdle /\ WalkIdle /\ TagIdle /\ ProgressIdle /\ FbcIdle
InitExpansion ==
    InitEdges /\ BuilderIdle /\ CopierIdle /\ RaceIdle /\ PoolIdle /\ InspectIdle /\ TripIdle /\ DryIdle /\ WalkIdle /\ TagIdle /\ ProgressIdle /\ FbcIdle
InitRoundTrip ==
    InitTrip /\ BuilderIdle /\ CopierIdle /\ RaceIdle /\ PoolIdle /\ InspectIdle /\ EdgesIdle /\ DryIdle /\ WalkIdle /\ TagIdle /\ ProgressIdle /\ FbcIdle
InitDryPush ==
    InitDry /\ CopierIdle /\ RaceIdle /\ PoolIdle /\ InspectIdle /\ EdgesIdle /\ TripIdle /\ WalkIdle /\ TagIdle /\ ProgressIdle /\ FbcIdle
InitAuthored ==
    InitWalk /\ BuilderIdle /\ CopierIdle /\ RaceIdle /\ PoolIdle /\ InspectIdle /\ EdgesIdle /\ TripIdle /\ DryIdle /\ TagIdle /\ ProgressIdle /\ FbcIdle
InitTagged ==
    InitTag /\ CopierIdle /\ RaceIdle /\ PoolIdle /\ InspectIdle /\ EdgesIdle /\ TripIdle /\ DryIdle /\ WalkIdle /\ ProgressIdle /\ FbcIdle
InitDisplay ==
    InitProgress /\ BuilderIdle /\ CopierIdle /\ RaceIdle /\ PoolIdle /\ InspectIdle /\ EdgesIdle /\ TripIdle /\ DryIdle /\ WalkIdle /\ TagIdle /\ FbcIdle
InitProjection ==
    InitFbc /\ BuilderIdle /\ CopierIdle /\ RaceIdle /\ PoolIdle /\ InspectIdle /\ EdgesIdle /\ TripIdle /\ DryIdle /\ WalkIdle /\ TagIdle /\ ProgressIdle

Spec == Init /\ [][NextBuild]_vars

SpecRebuild == Init /\ [][NextBuild \/ Rebuild]_vars

SpecCopy == InitCopier /\ [][NextCopy]_vars

SpecRace == InitRacers /\ [][NextRace]_vars

SpecPool == InitTasks /\ [][NextPool]_vars

SpecPoolFair == InitTasks /\ [][NextPool]_vars /\ WF_vars(PoolProgress)

\* The staging builder in full, with the same fairness: every step but the
\* failure of a store operation and the caller's cancellation.
SpecFair == Init /\ [][NextBuild]_vars /\ WF_vars(BuildProgress)

SpecInspect == InitInspector /\ [][NextInspect]_vars

SpecEdges == InitExpansion /\ [][NextEdges]_vars

SpecTrip == InitRoundTrip /\ [][NextTrip]_vars

SpecDry == InitDryPush /\ [][NextDry]_vars

SpecWalk == InitAuthored /\ [][NextWalk]_vars

SpecTag == InitTagged /\ [][NextTag]_vars

SpecProgress == InitDisplay /\ [][NextProgress]_vars

SpecFbc == InitProjection /\ [][NextFbc]_vars

(***************************************************************************)
(* Claims about the Graph Builder.                                         *)
(***************************************************************************)
NoDanglingReference(st) == \A desc \in st : Successors(desc) \subseteq st

\* C1: in every reachable state of a build, whatever the interleaving of the
\* blob tasks and sub-artifact tasks, every manifest held by the staging store
\* has all the blobs and sub-artifact manifests it references in that store
\* (the store only grows, so a manifest is pushed only after its children).
C1_ChildrenBeforeManifest == NoDanglingReference(store)

\* C1 witness: the root manifest of a two-level tree is in the store; it
\* references a sub-artifact manifest and blobs.
C1_Witness ==
    /\ tree.n >= 2
    /\ ndesc[Root] \in store
    /\ \E c \in Successors(ndesc[Root]) : c.mediaType = MediaTypeArtifactManifest
    /\ \E c \in Successors(ndesc[Root]) : c.mediaType # MediaTypeArtifactManifest

\* C2 (as claimed): two builds of the same Artifact tree return the same root
\* digest, whatever the completion orders of their tasks.
C2_SameRootDigest ==
    (prevRoot # NoDesc /\ ndesc[Root] # NoDesc) => ndesc[Root].digest = prevRoot.digest

WholeTreeStaged ==
    \A n \in Nodes : n <= tree.n =>
        /\ ndesc[n] \in store
        /\ \A b \in BlobsOf(tree, n) : BlobDesc(tree, b) \in store

\* C3: Push is two-phase.  An operation on the target happens only after
\* push(root) returned without error with the whole tree in the staging store;
\* and when staging fails Push returns an error and an empty descriptor with
\* no operation performed on the target, which is unchanged.
C3_TwoPhase ==
    /\ targetOps > 0 => (stageErr = Nil /\ npc[Root] = "done" /\ WholeTreeStaged)
    /\ stageErr # Nil =>
          /\ phase = "failed"
          /\ result = [desc |-> NoDesc, err |-> "stage artifact graph locally"]
          /\ targetOps = 0
          /\ target = {}

\* C3 witness: staging failed after part of the tree had been staged, and Push
\* has returned.
C3_Witness ==
    /\ stageErr # Nil
    /\ store # {}
    /\ result.err = "stage artifact graph locally"

\* C10: within one build, a task that pushes a descriptor the staging store
\* already holds leaves the store as it was and goes on without error (the
\* blob task reaches its select, push(n) gets its manifest descriptor).
C10_PushPresentIsNoOp ==
    [][ /\ \A b \in BlobSlots :
              (bpc[b] = "read" /\ bpc'[b] # "read" /\ BlobDesc(tree, b) \in store)
                  => (store' = store /\ bpc'[b] = "pushed" /\ gerr' = gerr)
        /\ \A n \in Nodes :
              (/\ npc[n] = "wait"
               /\ npc'[n] # "wait"
               /\ gerr[n] = Nil
               /\ NewDescriptorFromBytes(MediaTypeArtifactManifest,
                      Marshal(ArtifactType(tree, n), SortSliceByDigest(descChan[n])))
                    \in store)
                  => (store' = store /\ npc'[n] = "pushed" /\ gerr' = gerr)
      ]_vars

\* C10 witness: two blob tasks under two different parents carry the same
\* descriptor, and both have pushed it.
C10_Witness ==
    \E b1 \in BlobSlots, b2 \in BlobSlots :
        /\ b1[1] # b2[1]
        /\ bpc[b1] \in {"pushed", "done"}
        /\ bpc[b2] \in {"pushed", "done"}
        /\ BlobDesc(tree, b1) = BlobDesc(tree, b2)

(***************************************************************************)
(* Claims about the Graph Copier.                                          *)
(***************************************************************************)

\* C4: copy.Descriptor pushes a manifest only after all its children are at
\* dest, so a dest that is DAG-complete before the copy stays DAG-complete in
\* every state the copy reaches, an abort partway through included.
C4_CopyPreservesDagComplete == DagComplete(dest0) => DagComplete(dest)

\* An aborted copy that had pushed a manifest and more before it failed.
C4_Witness ==
    /\ cdone /\ cres.err # CNil
    /\ DagComplete(dest0)
    /\ Len(pushLog) >= 3
    /\ \E d \in Range(pushLog) : References(d) # {}

\* C5: after copy.Descriptor returns without error for root R, every
\* descriptor reachable from R is at dest, provided dest was DAG-complete
\* before the call.
C5_CopyComplete ==
    (cdone /\ cres.err = CNil /\ DagComplete(dest0)) => Reach(croot) \subseteq dest

\* A successful copy of a graph of three levels whose root was absent.
C5_Witness ==
    /\ cdone /\ cres.err = CNil
    /\ DagComplete(dest0)
    /\ croot \notin dest0
    /\ Cardinality(Reach(croot)) >= 5
    /\ Reach(croot) \subseteq dest

\* C6: when dest already holds the root descriptor, copy.Descriptor fetches
\* nothing, pushes nothing, is called on no child, and leaves dest as it
\* was; once the existence check has answered it returns 0 bytes and no
\* error (a check that itself fails returns 0 bytes and that failure).
C6_RootPresentIsNoOp ==
    croot \in dest0 =>
        /\ fetchLog = <<>>
        /\ pushLog = <<>>
        /\ callLog = << croot >>
        /\ dest = dest0
        /\ destTag = 0
        /\ cdone => cres.bytes = 0
        /\ (cdone /\ ~cfault) => cres.err = CNil

\* The root is at dest, some of what it refers to is not, and the call has
\* returned without error.
C6_Witness ==
    /\ croot \in dest0
    /\ cdone /\ cres.err = CNil
    /\ References(croot) # {}
    /\ ~(References(croot) \subseteq dest)

\* The media type is in neither switch of copy.Descriptor.
Unrecognized(ver, d) ==
    SrcObjects[d].mediaType \notin (LeafMediaTypes(ver) \cup ManifestMediaTypes)

\* C7: a call of copy.Descriptor on a descriptor that is absent from dest
\* and whose media type is neither a manifest type nor a leaf type returns
\* an error and never pushes the descriptor; the calls it is nested in push
\* nothing either, and with a DAG-complete dest none of its ancestors is
\* ever pushed.
C7_UnrecognizedIsError ==
    /\ \A k \in 1..Len(callLog) :
           (Unrecognized(cver, callLog[k]) /\ callLog[k] \notin dest0) =>
               /\ callLog[k] \notin dest
               /\ callLog[k] \notin Range(pushLog)
               /\ cdone => cres.err # CNil
               /\ (cdone /\ ~cfault) => cres.err = "unrecognized media type"
    /\ \A chain \in unrecChain : \A k \in 1..Len(chain) :
           /\ chain[k] \notin dest
           /\ chain[k] \notin landed \cup Range(pushLog)
    /\ DagComplete(dest0) =>
           \A chain \in unrecChain : \A a \in Objects :
               chain[Len(chain)] \in Reach(a) => a \notin dest

\* The error came from a grandchild of the root, after a sibling was pushed.
C7_Witness ==
    /\ cdone /\ cres.err = "unrecognized media type"
    /\ \E chain \in unrecChain : Len(chain) >= 3
    /\ pushLog # <<>>

\* The bytes a copy of the descriptors ds, in order, reports when nothing
\* fails, and the dest it leaves.
RECURSIVE CopyAll(_, _, _)
CopyAll(ver, ds, st) ==
    IF ds = <<>> \/ ~st.ok THEN st
    ELSE LET d == Head(ds)
             pushed(r) == [r EXCEPT !.dest = @ \cup {d}, !.bytes = @ + Size(d)]
         IN  IF d \in st.dest THEN CopyAll(ver, Tail(ds), st)
             ELSE IF SrcObjects[d].mediaType \in LeafMediaTypes(ver)
             THEN CopyAll(ver, Tail(ds), pushed(st))
             ELSE IF SrcObjects[d].mediaType \in ManifestMediaTypes /\ SrcObjects[d].decodes
             THEN LET r == CopyAll(ver, SrcObjects[d].children, st)
                  IN  IF r.ok THEN CopyAll(ver, Tail(ds), pushed(r)) ELSE r
             ELSE [st EXCEPT !.ok = FALSE]
UninterruptedBytes ==
    CopyAll(cver, << croot >>, [dest |-> dest0, bytes |-> 0, ok |-> TRUE]).bytes

\* Every descriptor reachable from the root that was absent from dest before
\* the first attempt has a media type of one of the two switches, and the
\* manifests among them decode.
Copyable ==
    \A d \in Reach(croot) \ dest0 :
        /\ ~Unrecognized(cver, d)
        /\ SrcObjects[d].mediaType \in ManifestMediaTypes => SrcObjects[d].decodes

\* What C8 promises of a re-run that has returned.
RetryResumes ==
    /\ cres.err = CNil
    /\ Reach(croot) \subseteq dest
    /\ landed \cap (Range(fetchLog) \cup Range(pushLog)) = {}
    /\ prevBytes + cres.bytes = UninterruptedBytes

\* C8 as stated: when a copy of a root aborted with an error and is run
\* again with no store operation failing and no other writer, the re-run
\* succeeds, all of the graph is at dest, nothing the failed attempt landed is
\* fetched or pushed again, and the bytes of the attempts add up to those of
\* an uninterrupted copy.
C8_RetryResumes ==
    (attempt > 1 /\ cdone /\ ~cfault) => RetryResumes

\* C8, amended with the two conditions the code needs: dest was DAG-complete
\* before the first attempt, and every descriptor reachable from the root
\* that was absent from dest then has a media type the Copier recognizes as a
\* leaf or a manifest, every manifest among them decoding. Under them a
\* re-run without faults after an aborted attempt succeeds, all of the graph
\* is at dest, nothing the failed attempt landed is fetched or pushed again,
\* and the bytes of the attempts add up to those of an uninterrupted copy.
C8_RetryResumesWhenCopyable ==
    (attempt > 1 /\ cdone /\ ~cfault /\ DagComplete(dest0) /\ Copyable) => RetryResumes

\* A re-run that succeeded after an attempt that had landed descriptors.
C8_Witness ==
    /\ attempt > 1 /\ cdone /\ ~cfault
    /\ DagComplete(dest0) /\ Copyable
    /\ landed # {}
    /\ prevBytes > 0
    /\ pushLog # <<>>
    /\ cres.err = CNil

(***************************************************************************)
(* Claims about operations that share a destination.                       *)
(***************************************************************************)

\* C9: when concurrent copy or push operations race to push the same
\* descriptor to one destination, no operation fails because of the race
\* and the destination ends up holding the descriptor exactly once.
C9_RaceHarmless ==
    /\ \A r \in Racers : rpc[r] = "done" => rerr[r] = CNil
    /\ \A d \in RaceDescs : shared[d] <= 1
    /\ \A r \in Racers : rpc[r] = "done" => shared[rdesc[r]] = 1

(***************************************************************************)
(* Claims about cancellation and the tasks of a build.                     *)
(***************************************************************************)

\* A task of the build has returned an error to its group.
TaskFailed == \E n \in Nodes : gerr[n] # Nil

\* C11: once the first task of a build has failed, no task issues a new push
\* to the store: every step taken after the failure leaves the store as it
\* was.
C11_NoPushAfterFailure == [][TaskFailed => store' = store]_vars

\* C12: at every moment of a build the blob tasks and sub-artifact tasks
\* that run, counted over the whole tree, number at most the concurrency
\* limit.
C12_TasksWithinLimit == RunningTasks <= PoolLimit

(***************************************************************************)
(* Claims about the tag and the byte count of a copy.                      *)
(***************************************************************************)

\* C13: a copy.Descriptor call that was given a tag and returns without
\* error leaves the tag at dest pointing at the root descriptor, and no tag
\* is ever written for a descriptor that is not the root.
C13_TagAtRoot ==
    /\ (cdone /\ cres.err = CNil /\ ctagged) => destTag = croot
    /\ destTag \in {0, croot}

\* The sizes of the descriptors pushed to dest in this attempt, added up.
PushedBytes == SeqSum([k \in 1..Len(pushLog) |-> Size(pushLog[k])])

\* C14: the byte count copy.Descriptor returns is the sum of the sizes of
\* the descriptors the call pushed to dest, when it succeeds and when it
\* returns an error; while the call runs, the counts of its active calls add
\* up to the same sum.
C14_BytesArePushedSizes ==
    IF cdone THEN cres.bytes = PushedBytes
    ELSE cstack # <<>> => StackBytes = PushedBytes

\* A copy that returned an error after it had pushed several descriptors.
C14_Witness ==
    /\ cdone /\ cres.err # CNil
    /\ Len(pushLog) >= 2
    /\ cres.bytes = PushedBytes
    /\ cres.bytes >= 3


\* ---------------------------------------------------------------------------
\* The Inspector's claims, checked under SpecInspect.
\* ---------------------------------------------------------------------------

\* inspect is about to run its check with the caller's context cancelled.
CheckSeesCancel ==
    /\ ~idone /\ istack # << >>
    /\ ITop.pc = "check"
    /\ ictx = "canceled"

\* C15: inspect checks the caller's cancellation signal before each node's
\* fetch. A check that finds the context cancelled performs no fetch, for its
\* node or for any later one: the walk ends there with the cancellation
\* condition, which no fetch or decode failure is mistaken for (a walk that
\* ends with it had its context cancelled, and the store's and the decoders'
\* own errors are other values).
C15_CancelStopsFetching ==
    [][/\ CheckSeesCancel => (idone' /\ ierr' = Canceled /\ ifetched' = ifetched)
       /\ idone => ifetched' = ifetched
       /\ (idone' /\ ierr' = Canceled) => ictx' = "canceled"
       /\ Canceled \notin {NotFound, DecodeError, CNil}]_vars

\* A walk cancelled part-way: it fetched some nodes, not all, and returned
\* the cancellation condition.
C15_Witness ==
    /\ idone /\ ierr = Canceled
    /\ Len(ifetched) >= 2
    /\ \E d \in Reach(iroot) : d \in istore /\ d \notin Range(ifetched)

\* C16: inspect only reads. Whatever the outcome (success, failure,
\* cancellation), the store holds the same objects and the same tag as when
\* Inspect was called.
C16_InspectReadOnly ==
    /\ istore = istore0
    /\ itag = itag0

\* A walk that fetched two nodes from the store and then failed on a decode.
C16_Witness ==
    /\ idone /\ ierr = DecodeError
    /\ Len(ifetched) >= 2
    /\ istore # {}


\* ---------------------------------------------------------------------------
\* The claims about upgrade-edge expansion, checked under SpecEdges.
\* ---------------------------------------------------------------------------

\* The target list the returned map gives for a release (a missing key reads
\* as the empty list).
Targets(b) ==
    IF b \in DOMAIN finalUpgradeEdges THEN finalUpgradeEdges[b] ELSE << >>

LaterReleases(b) ==
    {c \in ebundles : c.version = b.version /\ c.release > b.release}

HighestRelease(v) ==
    CHOOSE c \in ebundles :
        /\ c.version = v
        /\ \A e \in ebundles : e.version = v => e.release <= c.release

DeclaredTargets(b) ==
    IF b.version \in DOMAIN upgradeEdges
    THEN {HighestRelease(upgradeEdges[b.version][k]) :
              k \in 1..Len(upgradeEdges[b.version])}
    ELSE {}

\* C17: when the expansion returns, every release that is present has exactly
\* these targets: every later release of its own version, and the highest
\* release of each version declared reachable from its version.
C17_ExpansionRule ==
    (edone /\ ~epanic) =>
        \A b \in ebundles : Range(Targets(b)) = LaterReleases(b) \cup DeclaredTargets(b)

\* Descending order by (version, release), both compared as numbers.
NumericallyAbove(a, b) ==
    \/ a.version > b.version
    \/ a.version = b.version /\ a.release >= b.release

\* C18: every target list the expansion returns is sorted in descending order
\* by (version, release), versions and releases compared as numbers.
C18_TargetsSortedNumerically ==
    (edone /\ ~epanic) =>
        \A b \in DOMAIN finalUpgradeEdges :
            \A k \in 1..(Len(finalUpgradeEdges[b]) - 1) :
                NumericallyAbove(finalUpgradeEdges[b][k], finalUpgradeEdges[b][k + 1])


\* ---------------------------------------------------------------------------
\* The round trip of a bundle's metadata, checked under SpecTrip.
\* ---------------------------------------------------------------------------

C20_EmbeddedDigestIsPushedDigest ==
    [][/\ (IsBundle(tree') /\ dphase' = "real" /\ phase' = "done" /\ result'.err = "nil")
             => result'.desc.digest = embedded'
       /\ dphase = "dry" => durable' = durable]_vars


\* ---------------------------------------------------------------------------
\* Error reporting, abort and ordering claims of the Builder, the Copier and
\* the Inspector.
\* ---------------------------------------------------------------------------

\* C21: every error a build returns for a construction, content, store or
\* graph-shape failure (not for a cancellation) names the offending artifact
\* or media type and the digest.
C21_ErrorsNameTypeAndDigest ==
    (phase = "failed" /\ stageErr.kind \notin {"nil", "canceled"})
        => {"type", "digest"} \subseteq ErrorNames(stageErr.kind)


\* The media types of the objects a build puts into a store: the artifact
\* manifest and the blob types of the domain model that the object table has.
BuilderMediaTypes ==
    {MediaTypeArtifactManifest, MediaTypeBundleMetadata, MediaTypeProperties,
     MediaTypeConstraints, MTMarkdown, MTSvg}

\* A graph as the Builder produces it: well-formed artifact manifests over
\* blobs of the domain model.
BuiltByBuilder(d) ==
    /\ SrcObjects[d].mediaType = MediaTypeArtifactManifest
    /\ \A x \in Reach(d) :
          /\ SrcObjects[x].mediaType \in BuilderMediaTypes
          /\ SrcObjects[x].decodes

\* C22: every recognized media type is a manifest or a leaf for the Copier, so
\* the copy of a graph the Builder produced into an empty destination never
\* fails with an unsupported-media-type error.
C22_BuilderGraphIsCopyable ==
    (cdone /\ dest0 = {} /\ BuiltByBuilder(croot))
        => cres.err # "unrecognized media type"


\* The root is of a registered leaf type and the destination lacks it.
LeafRootToCopy ==
    /\ SrcObjects[croot].mediaType \in LeafMediaTypes(cver)
    /\ croot \notin dest0

\* C23: the copy of a descriptor of a registered leaf type performs one
\* fetch, one push of the fetched object and no child copy, and the bytes are
\* not decoded: it succeeds whether or not they would decode, unless the
\* store fails.
C23_LeafCopiedOpaque ==
    (cdone /\ LeafRootToCopy /\ ~cfault) =>
        /\ cres.err = CNil
        /\ fetchLog = << croot >>
        /\ pushLog = << croot >>
        /\ callLog = << croot >>
        /\ dest = dest0 \cup {croot}

\* A markup leaf whose bytes are not JSON has been copied.
C23_Witness ==
    /\ cdone /\ LeafRootToCopy /\ ~cfault
    /\ SrcObjects[croot].mediaType = MTSvg
    /\ ~SrcObjects[croot].decodes
    /\ croot \in dest


\* C24: a failed existence check, fetch, decode or push ends the whole copy at
\* once with that error. From then on the call fetches and pushes nothing
\* more; no ancestor of the failing descriptor has been pushed or is at the
\* destination; and what was pushed before the failure is still there.
C24_FailureAbortsCopy ==
    [][/\ cres.err # CNil => cdone
       /\ (cres.err # CNil /\ attempt' = attempt) =>
              /\ fetchLog' = fetchLog
              /\ pushLog' = pushLog
              /\ dest' = dest
       /\ (~cdone /\ cdone' /\ cres'.err # CNil) =>
              /\ \A k \in 1..(Len(cstack) - 1) : cstack[k].d \notin dest'
              /\ Range(pushLog') \subseteq dest'
              /\ dest \subseteq dest']_vars

\* A copy that failed below the root after it had pushed something, with
\* part of the graph not fetched.
C24_Witness ==
    /\ cdone /\ cres.err # CNil
    /\ Len(pushLog) >= 1
    /\ Len(callLog) >= 3
    /\ \E d \in Reach(croot) : d \notin dest /\ d \notin Range(fetchLog)


AscendingByDigest(descs) ==
    \A i, j \in 1..Len(descs) : i < j => ~DigestLess(descs[j].digest, descs[i].digest)

\* C25: the blobs of every manifest the Builder has serialized and pushed are
\* in ascending order of digest, whatever the order its tasks delivered the
\* descriptors in.
C25_BlobsAscendingByDigest ==
    \A desc \in store :
        desc.mediaType = MediaTypeArtifactManifest =>
            AscendingByDigest(UnmarshalArtifactBlobs(desc.digest))

\* A pushed manifest whose descriptors were delivered out of digest order.
C25_Witness ==
    \E n \in Nodes :
        /\ n <= tree.n
        /\ ndesc[n] \in store
        /\ Len(descChan[n]) >= 2
        /\ ~AscendingByDigest(descChan[n])
        /\ Len(UnmarshalArtifactBlobs(ndesc[n].digest)) = Len(descChan[n])


\* The descriptors of a graph in depth-first pre-order: a node, then the
\* subtree of each of its children in turn; a node reached twice is listed
\* twice.
RECURSIVE PreOrderOf(_, _)
PreOrder(d) ==
    << d >> \o PreOrderOf(IF SrcObjects[d].mediaType \in InspectManifestTypes
                          THEN SrcObjects[d].children ELSE << >>, 1)
PreOrderOf(ds, i) ==
    IF i > Len(ds) THEN << >> ELSE PreOrder(ds[i]) \o PreOrderOf(ds, i + 1)

IsPrefix(s, t) == Len(s) <= Len(t) /\ SubSeq(t, 1, Len(s)) = s

\* C26: inspect fetches once per visit, in depth-first pre-order: the fetches
\* made so far are always a prefix of the pre-order of the graph, one is added
\* at a time, a walk that returns nil has made all of them, and once a fetch
\* or a decode has failed no fetch follows.
C26_OneFetchPerVisitPreOrder ==
    [][/\ IsPrefix(ifetched', PreOrder(iroot))
       /\ Len(ifetched') <= Len(ifetched) + 1
       /\ ierr # CNil => ifetched' = ifetched
       /\ (idone' /\ ierr' = CNil) => ifetched' = PreOrder(iroot)
       /\ (idone' /\ ierr' = DecodeError) =>
              /\ ifetched' # << >>
              /\ ~SrcObjects[ifetched'[Len(ifetched')]].decodes]_vars

\* A walk that returned nil after it visited, and fetched, one descriptor
\* twice.
C26_Witness ==
    /\ idone /\ ierr = CNil
    /\ Len(ifetched) >= 4
    /\ \E i, j \in 1..Len(ifetched) : i < j /\ ifetched[i] = ifetched[j]

\* A walk a failed fetch ended below the root with part of the graph never
\* fetched.
C26_WitnessFailure ==
    /\ idone /\ ierr = NotFound
    /\ Len(ifetched) >= 2
    /\ Len(ifetched) + 1 < Len(PreOrder(iroot))


\* C27 (as claimed): inspect visits the children of an artifact manifest the
\* Builder produced in the order the node declared them (its sub-artifacts,
\* then its blobs), not in digest order.
C27_VisitsInAuthoringOrder ==
    wpc = "inspected" => wvisited = wdeclared


\* The errors a task of a build can fail with on its own account.
TaskErrors ==
    {ErrData(b[1], b[2]) : b \in BlobSlots}
        \cup {ErrPushBlob(b[1], b[2]) : b \in BlobSlots}
        \cup {ErrPushArtifact(n) : n \in Nodes}

\* e is the only failure there has been: one errgroup of the tree holds it and
\* no other group holds any error.
FirstFailureIs(e) ==
    /\ phase = "stage"
    /\ ~callerCancelled
    /\ \E n \in Nodes : /\ gerr[n] = e
                        /\ \A m \in Nodes \ {n} : gerr[m] = Nil

\* C28 (as claimed): when the caller did not cancel, the error push(root)
\* hands to Push is the error of the task that failed first in time over the
\* whole tree: while e is the only failure there has been, the error kept by
\* the root's errgroup, which is what eg.Wait returns to push(root) and
\* push(root) to Push, is e or none yet, after every step.
C28_FirstFailureInTimeReturned ==
    [][\A e \in TaskErrors : FirstFailureIs(e) => gerr'[Root] \in {Nil, e}]_vars


\* C29: the push command writes the tag only after the copy of the whole
\* graph returned without error, and never when it failed: the tag changes
\* only in a step taken after Push returned nil, a failed Push leaves no tag,
\* and the tagged descriptor is at the target with every descendant.
C29_TagAfterWholeGraph ==
    [][/\ tagged' # tagged => (phase = "done" /\ result.err = "nil" /\ tagged' = result.desc)
       /\ phase' = "failed" => tagged' = NoDesc
       /\ tagged' # NoDesc => (tagged' \in target' /\ NoDanglingReference(target'))]_vars

\* The tag points at the root of a two-level graph the command copied.
C29_Witness ==
    /\ cmdErr = "nil"
    /\ tagged = ndesc[Root]
    /\ tagged # NoDesc
    /\ tree.n >= 2
    /\ \E c \in Successors(tagged) : c.mediaType = MediaTypeArtifactManifest /\ c \in target

\* A command that returned the error of a copy that failed part-way: objects
\* are at the target and no tag is.
C29_WitnessFailed ==
    /\ cmdErr = "push package"
    /\ result.err = "push artifact graph"
    /\ target # {}
    /\ tagged = NoDesc


\* Two blobs of the node have the same bytes, and so the same digest, under
\* two media types.
SameDigestTwoMediaTypes(t, n) ==
    \E i, j \in 1..Len(Blobs(t, n)) :
        /\ Blobs(t, n)[i].data = Blobs(t, n)[j].data
        /\ Blobs(t, n)[i].mediaType # Blobs(t, n)[j].mediaType

\* C30 (as claimed): for a node with two children of the same digest and
\* different media types, the manifest two builds of the same tree serialize,
\* and its digest, are the same whatever the completion order of the tasks.
C30_TieManifestIndependentOfOrder ==
    (/\ SameDigestTwoMediaTypes(tree, Root)
     /\ prevRoot # NoDesc
     /\ ndesc[Root] # NoDesc)
        => /\ UnmarshalArtifactBlobs(ndesc[Root].digest) = UnmarshalArtifactBlobs(prevRoot.digest)
           /\ ndesc[Root].size = prevRoot.size
           /\ ndesc[Root].digest = prevRoot.digest


\* ---------------------------------------------------------------------------
\* Termination, completeness of the manifest and abort of the Builder; the
\* shared descriptors of a copy.
\* ---------------------------------------------------------------------------

\* C31: every build terminates: under the scheduler's fairness, whatever the
\* tasks' interleaving and whichever store operations fail, push(root)
\* returns a descriptor or an error, in the staging builder and in the pool
\* builder, whose pool of 8 never ends up full of calls that cannot return.
C31_BuildTerminates == <>(ppc[1] \in {"done", "failed"})

\* The same for Push of the staging builder in full (staging and copy
\* phases, failures and cancellation), under SpecFair.
PushReturns == <>(phase \in {"done", "failed"})

\* Every slot of the pool builder's pool is held while a blob task waits for
\* one.
C31_Witness ==
    /\ pver = "part_016"
    /\ InPool = PoolLimit
    /\ SeqSum(prun) > 0
    /\ ppc[1] \notin {"done", "failed"}


\* How many times d occurs in a list of descriptors.
CountIn(descs, d) == Cardinality({i \in 1..Len(descs) : descs[i] = d})

\* How many of the node's sub-artifacts and blobs have the descriptor d.
CountDeclared(n, d) ==
    Cardinality({c \in SubIndices(tree, n) : ndesc[c] = d})
        + Cardinality({b \in BlobsOf(tree, n) : BlobDesc(tree, b) = d})

\* C32: the manifest a node's push marshalled lists one descriptor for each of
\* the node's sub-artifacts and one for each of its blobs, each as often as it
\* is declared, and nothing else: its length is the number of sub-artifacts
\* plus the number of blobs.
C32_ManifestListsEveryChildOnce ==
    \A n \in Nodes :
        (n <= tree.n /\ ndesc[n] # NoDesc) =>
            LET blobs == UnmarshalArtifactBlobs(ndesc[n].digest)
            IN  /\ Len(blobs) = Cardinality(SubIndices(tree, n)) + Len(Blobs(tree, n))
                /\ \A d \in Range(blobs) : CountIn(blobs, d) = CountDeclared(n, d)
                /\ \A c \in SubIndices(tree, n) : ndesc[c] \in Range(blobs)
                /\ \A b \in BlobsOf(tree, n) : BlobDesc(tree, b) \in Range(blobs)

\* A built root with a sub-artifact and two blobs of one digest: three
\* descriptors in its manifest.
C32_Witness ==
    /\ phase = "done"
    /\ tree.n = 2
    /\ Len(Blobs(tree, Root)) = 2
    /\ Len(UnmarshalArtifactBlobs(ndesc[Root].digest)) = 3


\* A blob task or a sub-artifact task of push(n) has returned an error.
TaskOfNodeFailed(n) ==
    \/ \E b \in BlobsOf(tree, n) : bpc[b] = "failed"
    \/ \E c \in SubIndices(tree, n) : npc[c] = "failed"

\* The node and the nodes above it.
RECURSIVE SelfAndAncestors(_)
SelfAndAncestors(n) ==
    IF n = Root THEN {Root} ELSE {n} \cup SelfAndAncestors(tree.parent[n])

\* C33: once a blob task or a sub-artifact task of a node has failed, push
\* pushes no manifest for that node or for any node above it, the build never
\* reaches its copy phase, and Push ends with an error and the empty
\* descriptor.
C33_FailedTaskAbortsBuild ==
    \A n \in Nodes :
        (n <= tree.n /\ TaskOfNodeFailed(n)) =>
            /\ \A a \in SelfAndAncestors(n) :
                  /\ ndesc[a] = NoDesc
                  /\ npc[a] \notin {"pushed", "done"}
            /\ phase \in {"stage", "failed"}
            /\ phase = "failed" => (result.desc = NoDesc /\ result.err # "nil")

\* A build that ended with an error after a blob task of the sub-artifact
\* failed while the store already held blobs.
C33_Witness ==
    /\ phase = "failed"
    /\ tree.n = 2
    /\ \E b \in BlobsOf(tree, 2) : bpc[b] = "failed"
    /\ store # {}
    /\ result.desc = NoDesc


NoDuplicates(log) == \A i, j \in 1..Len(log) : i # j => log[i] # log[j]

RECURSIVE SizesOf(_)
SizesOf(ds) ==
    IF ds = {} THEN 0
    ELSE LET d == CHOOSE x \in ds : TRUE IN Size(d) + SizesOf(ds \ {d})

\* C34: within one copy.Descriptor call a descriptor is fetched from src at
\* most once and pushed to dest at most once, however many parents refer to
\* it; the later visits add nothing to the byte count, which is the sum of
\* the sizes of the distinct descriptors pushed.
C34_SharedDescriptorOnce ==
    /\ NoDuplicates(fetchLog)
    /\ NoDuplicates(pushLog)
    /\ cdone => cres.bytes = SizesOf(Range(pushLog))

\* A copy that returned nil after it visited a descriptor twice and pushed it.
C34_Witness ==
    /\ cdone /\ cres.err = CNil
    /\ \E i, j \in 1..Len(callLog) :
          /\ i < j
          /\ callLog[i] = callLog[j]
          /\ callLog[i] \in Range(pushLog)
    /\ cres.bytes > 0


\* C35 (as claimed): CopyGraphWithProgress always returns and the display
\* goroutine has ended when it does: no returned call leaves the goroutine
\* reading the pipe, and the call never reaches a state in which it cannot
\* return, a callback of the copy blocked in a Write that no Read will take.
C35_ReturnsWithDisplayEnded ==
    /\ qret # "running" => qdisp # "reading"
    /\ ~(qwriting > 0 /\ qdisp # "reading")


\* C36 (as claimed): in the map the expansion returns, a target of the same
\* version as its source has a greater release number than the source.
C36_SameVersionTargetsAreLater ==
    (edone /\ ~epanic) =>
        \A b \in DOMAIN finalUpgradeEdges :
            \A k \in 1..Len(finalUpgradeEdges[b]) :
                finalUpgradeEdges[b][k].version = b.version
                    => finalUpgradeEdges[b][k].release > b.release

\* C37 (as claimed): the expansion ends by returning, never by a run-time
\* panic, whatever the declared map names.
C37_ExpansionNeverPanics == ~epanic

\* The names of the entries of flattened channel c.
EntryNames(c) == {fchannels[c][j].Name : j \in 1..Len(fchannels[c])}

\* The bundles of all channels of the package.
AllChannelBundles == UNION {{fchs[c][j] : j \in 1..Len(fchs[c])} : c \in 1..Len(fchs)}

\* C38: in the declarative projection of a Package, every bundle of a channel
\* is the name of at least one entry of the corresponding flattened channel,
\* and the flattened bundles list holds exactly one bundle per distinct
\* (version, release) over all channels.
C38_EveryBundleNamedOncePerRelease ==
    fret = "ok" =>
        /\ Len(fchannels) = Len(fchs)
        /\ \A c \in 1..Len(fchs) : \A j \in 1..Len(fchs[c]) :
               bundleName(fchs[c][j]) \in EntryNames(c)
        /\ Len(fbundles) = Cardinality(AllChannelBundles)
        /\ {fbundles[j] : j \in 1..Len(fbundles)} =
               {bundleName(b) : b \in AllChannelBundles}

\* The second half of C38 alone: one flattened bundle per distinct release.
C38_OneBundlePerRelease ==
    fret = "ok" =>
        /\ Len(fbundles) = Cardinality(AllChannelBundles)
        /\ {fbundles[j] : j \in 1..Len(fbundles)} =
               {bundleName(b) : b \in AllChannelBundles}

\* The first half of C38 for a package that carries no upgrade edges.
C38_NamedWithoutEdges ==
    (fret = "ok" /\ DOMAIN fedges = {}) =>
        \A c \in 1..Len(fchs) : \A j \in 1..Len(fchs[c]) :
            bundleName(fchs[c][j]) \in EntryNames(c)

====
